---- MODULE Spec2Model ----
(***************************************************************************)
(* Frame-level model of net_link.c, the Pocket link-cable transport: two   *)
(* endpoints running the same driver, joined by one FIFO frame channel per *)
(* direction.  A channel holds the checksum-valid frames that the peer has *)
(* written and this endpoint has not yet parsed; a frame that is lost or   *)
(* fails its checksum simply disappears from the channel.  Time is in      *)
(* milliseconds.  A public entry point is one action; the pumps it runs    *)
(* (Link_PumpRx, directly and through Link_TxWaitSpace) consume the        *)
(* numbers of frames given by the schedule the action draws, because the   *)
(* peer's words arrive while the entry point runs.                         *)
(***************************************************************************)
EXTENDS Integers, Sequences, FiniteSets, TLC

VARIABLES link, wire, now, obs

vars == <<link, wire, now, obs>>

(***************************** bounds **************************************)
MaxWire == 1          \* frames a channel holds (TX FIFO + cable + RX FIFO)
MaxSends == 2         \* reliable messages one endpoint gets accepted
MaxConnects == 1      \* Link_Connect calls of one endpoint
MaxSched == 3         \* schedule entries one call can draw
MaxNow == 3200        \* the clock's horizon, ms
MaxRetryNow == 1100   \* the horizon of the clock's small steps, ms
MaxLinkNow == 100     \* the clock's horizon with two peers, ms
MaxLiveNow == 2500    \* the clock's horizon of SpecLive, ms
MaxQueueBytes == 16   \* stands for NET_MAXMESSAGE
MaxPayload == 5       \* stands for MAX_MSGLEN
MaxPollWords == 4     \* stands for the 128 words of one receive pump
MaxSpins == 2         \* stands for the 500000 spins of one wait for TX space
MaxWords == 6         \* words a receive channel holds
MaxCrcFails == 1      \* checksum failures counted

(************************** program constants ******************************)
LINK_PKT_HELLO == 1
LINK_PKT_HELLO_ACK == 2
LINK_PKT_RELIABLE == 3
LINK_PKT_RELIABLE_ACK == 4
LINK_PKT_UNRELIABLE == 5
LINK_PKT_KEEPALIVE == 6
LINK_PKT_RESET == 7

LINK_STATE_DOWN == 0
LINK_STATE_HANDSHAKE == 1
LINK_STATE_CONNECTED == 2

LINK_RX_WAIT_MAGIC == 0
LINK_RX_WAIT_HEADER == 1
LINK_RX_WAIT_CRC == 2
LINK_RX_WAIT_PAYLOAD == 3

LINK_MAX_PAYLOAD == MaxPayload
LINK_POLL_WORD_BUDGET == MaxPollWords
LINK_TX_SPINS == MaxSpins
NET_MAXMESSAGE == MaxQueueBytes
LINK_CONNECT_TIMEOUT == 2000
LINK_HELLO_INTERVAL == 100
LINK_RETRY_INTERVAL == 50
LINK_KEEPALIVE_INTERVAL == 500
LINK_PEER_TIMEOUT == 2000
LINK_MAX_RETRIES == 20

Peers == {1, 2}
Other(p) == 3 - p

\* qsocket_t handles: NULL, the socket NET_NewQSocket hands to this driver,
\* and a live qsocket of the NET layer that is not the link's.
NULL == 0
LinkSock == 1
OtherSock == 2

\* A counter that does not wrap.
Byte_Wide(n) == n

Byte(n) == n % 256

Payloads == {<<1, 2, 3>>, <<7>>}

Frame(t, s, d) == [type |-> t, seq |-> s, data |-> d]

(***************************************************************************)
(* Words of the link FIFO are 32 bits wide; a word is its four bytes,      *)
(* least significant first, so that << 24 and & 0xFFFF are selections.     *)
(***************************************************************************)
Bytes == 0..255

\* 0x51464D45, "QFME"
LINK_FRAME_MAGIC == <<69, 77, 70, 81>>

\* word & 0xFFFF
Low16(word) == word[1] + 256 * word[2]

\* Bit k of the unsigned value v, and v with that bit inverted.
Bit(v, k) == (v \div (2 ^ k)) % 2

Flip(v, k) == IF Bit(v, k) = 1 THEN v - 2 ^ k ELSE v + 2 ^ k

\* v ^ 0x1021: bits 0, 5 and 12 inverted.
Xor1021(v) == Flip(Flip(Flip(v, 0), 5), 12)

\* a ^ b on bytes, bit by bit.
Xor8(a, b) ==
    ((a + b) % 2)
    + 2 * ((Bit(a, 1) + Bit(b, 1)) % 2)
    + 4 * ((Bit(a, 2) + Bit(b, 2)) % 2)
    + 8 * ((Bit(a, 3) + Bit(b, 3)) % 2)
    + 16 * ((Bit(a, 4) + Bit(b, 4)) % 2)
    + 32 * ((Bit(a, 5) + Bit(b, 5)) % 2)
    + 64 * ((Bit(a, 6) + Bit(b, 6)) % 2)
    + 128 * ((Bit(a, 7) + Bit(b, 7)) % 2)

\* The loop of Link_CRC16_Update: i shifts of the unsigned short crc.
RECURSIVE Link_CRC16_Shift(_, _)
Link_CRC16_Shift(crc, i) ==
    IF i = 0 THEN crc
    ELSE Link_CRC16_Shift(
           IF crc >= 32768
           THEN Xor1021((crc * 2) % 65536)
           ELSE (crc * 2) % 65536,
           i - 1)

\* crc ^= data << 8 inverts bits of the high byte only.
Link_CRC16_Update(crc, data) ==
    Link_CRC16_Shift(256 * Xor8(crc \div 256, data) + (crc % 256), 8)

\* The values of an unsigned short.  crc is passed by value: the test of
\* its type evaluates it before the next byte is taken.
UShort == 0..65535

\* The loop of Link_FrameCRC over the payload bytes.
RECURSIVE Link_FrameCRC_Payload(_, _)
Link_FrameCRC_Payload(crc, payload) ==
    IF crc \notin UShort \/ payload = <<>> THEN crc
    ELSE Link_FrameCRC_Payload(Link_CRC16_Update(crc, Head(payload)), Tail(payload))

Link_FrameCRC_LenHigh(crc, payload) ==
    IF crc \notin UShort THEN crc
    ELSE Link_FrameCRC_Payload(
           Link_CRC16_Update(crc, (Len(payload) \div 256) % 256), payload)

Link_FrameCRC_LenLow(crc, payload) ==
    IF crc \notin UShort THEN crc
    ELSE Link_FrameCRC_LenHigh(Link_CRC16_Update(crc, Len(payload) % 256), payload)

Link_FrameCRC_Seq(crc, seq, payload) ==
    IF crc \notin UShort THEN crc
    ELSE Link_FrameCRC_LenLow(Link_CRC16_Update(crc, seq), payload)

\* A checksum that starts from 0.
Link_FrameCRC_FromZero(type, seq, payload) ==
    Link_FrameCRC_Seq(Link_CRC16_Update(0, type), seq, payload)

\* payload_len is Len(payload)
Link_FrameCRC(type, seq, payload) ==
    Link_FrameCRC_Seq(Link_CRC16_Update(65535, type), seq, payload)

\* The header word of Link_SendFrame: type << 24 | seq << 16 | len & 0xFFFF.
\* A header word with the type and the sequence number exchanged.
HeaderWord_Swapped(type, seq, len) == <<len % 256, (len \div 256) % 256, type, seq>>

HeaderWord(type, seq, len) == <<len % 256, (len \div 256) % 256, seq, type>>

\* (unsigned int) crc
CrcWord(crc) == <<crc % 256, crc \div 256, 0, 0>>

\* The payload word Link_SendFrame builds from byte i on (from 0): absent
\* bytes stay 0.
PayloadWord(payload, i) ==
    [k \in 1..4 |-> IF i + k <= Len(payload) THEN payload[i + k] ELSE 0]

IntAlign(value) == ((value + 3) \div 4) * 4

RECURSIVE ReceiveMessageLength(_)
ReceiveMessageLength(q) ==
    IF q = <<>> THEN 0
    ELSE IntAlign(Len(Head(q).data) + 4) + ReceiveMessageLength(Tail(q))

(***************************************************************************)
(* The driver's globals after a successful Link_Init, with the fields of   *)
(* the link's qsocket (the sock_ fields), the caller's position in         *)
(* Link_Connect (pc, deadline), whether the caller holds the link's        *)
(* qsocket (held) and, while link_transport_dead is set, the reason that   *)
(* Link_MarkTransportDead printed (dead_reason).  words tells the level of  *)
(* detail of the endpoint's channels: frames that passed their checksum,   *)
(* or the 32-bit words of the FIFOs, with link_rx_payload the whole buffer.*)
(***************************************************************************)
InitSession ==
    [ link_hw_present |-> TRUE,
      link_listening |-> FALSE,
      link_socket |-> NULL,
      link_server_side |-> FALSE,
      link_incoming_pending |-> FALSE,
      link_state |-> LINK_STATE_DOWN,
      link_transport_dead |-> FALSE,
      link_sending_frame |-> FALSE,
      link_tx_rel_seq |-> 0,
      link_rx_rel_seq |-> 0,
      link_waiting_ack |-> FALSE,
      link_pending_seq |-> 0,
      link_pending_data |-> <<>>,
      link_pending_len |-> 0,
      link_pending_sent_at |-> 0,
      link_pending_retries |-> 0,
      link_last_rx_time |-> 0,
      link_last_tx_time |-> 0,
      link_last_hello_time |-> 0,
      link_handshake_start |-> 0,
      link_rx_state |-> LINK_RX_WAIT_MAGIC,
      link_rx_type |-> 0,
      link_rx_seq |-> 0,
      link_rx_len |-> 0,
      link_rx_crc |-> 0,
      link_rx_words_needed |-> 0,
      link_rx_words_seen |-> 0,
      link_rx_payload |-> <<>>,
      link_rx_crc_fail_count |-> 0,
      words |-> FALSE,
      sock_receiveMessage |-> <<>>,
      sock_canSend |-> FALSE,
      sock_disconnected |-> TRUE,
      pc |-> "idle",
      deadline |-> 0,
      held |-> FALSE,
      dead_reason |-> "none" ]

SessionFields == DOMAIN InitSession

\* What a caller of Link_SendMessage can know of the session when the
\* function has run its Link_Poll and decides.
Snap(s) ==
    [ link_state |-> s.link_state,
      link_transport_dead |-> s.link_transport_dead,
      link_waiting_ack |-> s.link_waiting_ack,
      link_pending_seq |-> s.link_pending_seq,
      link_pending_data |-> SubSeq(s.link_pending_data, 1, s.link_pending_len),
      link_tx_rel_seq |-> s.link_tx_rel_seq,
      ntx |-> 0 ]

NoSnap == [Snap(InitSession) EXCEPT !.ntx = -1]

\* A schedule entry: n, the frames that arrive and are pumped at this point
\* of the call, and ok, whether the transport then offers TX space.
DefaultEntry == [n |-> 0, ok |-> TRUE]

\* The context a handler runs in: the globals, the frames on their way to
\* this endpoint (rx), the frames it writes (tx), the room left in its TX
\* channel (room), the schedule (sched), the clock and the return value.
Ctx(s, rx, room, sched, t) ==
    s @@ [rx |-> rx, tx |-> <<>>, room |-> room, sched |-> sched, now |-> t,
          cur |-> DefaultEntry, starved |-> FALSE, plan |-> sched,
          ok |-> FALSE, ret |-> 0, delivered |-> <<>>, accepted |-> <<>>,
          got |-> <<>>,
          nrel |-> 0, mid |-> NoSnap, handled |-> <<>>, steps |-> 0,
          found |-> <<>>]

Session(c) == [f \in SessionFields |-> c[f]]

Ok(c, v) == [c EXCEPT !.ok = v]

Ret(c, v) == [c EXCEPT !.ret = v]

Link_TimeNow(c) == c.now

\* link_rx_payload is the first link_rx_len bytes of the buffer, and
\* link_pending_data the first link_pending_len bytes of its buffer: a
\* length set to 0 leaves the empty sequence.
Link_ResetParser(c) ==
    [c EXCEPT !.link_rx_state = LINK_RX_WAIT_MAGIC,
              !.link_rx_type = 0,
              !.link_rx_seq = 0,
              !.link_rx_len = 0,
              !.link_rx_crc = 0,
              !.link_rx_words_needed = 0,
              !.link_rx_words_seen = 0,
              !.link_rx_payload = IF c.words THEN @ ELSE <<>>]

\* A session marked dead that keeps its state.
Link_MarkTransportDead_Flag(c, reason) ==
    [c EXCEPT !.dead_reason = reason,
              !.link_transport_dead = TRUE,
              !.link_waiting_ack = FALSE,
              !.link_pending_len = 0,
              !.link_pending_data = <<>>,
              !.link_pending_retries = 0,
              !.sock_canSend = IF c.link_socket # NULL THEN FALSE ELSE @]

Link_MarkTransportDead(c, reason) ==
    [c EXCEPT !.dead_reason = reason,
              !.link_transport_dead = TRUE,
              !.link_state = LINK_STATE_DOWN,
              !.link_waiting_ack = FALSE,
              !.link_pending_len = 0,
              !.link_pending_data = <<>>,
              !.link_pending_retries = 0,
              !.sock_canSend = IF c.link_socket # NULL THEN FALSE ELSE @]

Link_ResetSession(c) ==
    Link_ResetParser(
    [c EXCEPT !.link_server_side = FALSE,
              !.link_incoming_pending = FALSE,
              !.link_state = LINK_STATE_DOWN,
              !.link_transport_dead = FALSE,
              !.dead_reason = "none",
              !.link_sending_frame = FALSE,
              !.link_tx_rel_seq = 0,
              !.link_rx_rel_seq = 0,
              !.link_waiting_ack = FALSE,
              !.link_pending_seq = 0,
              !.link_pending_len = 0,
              !.link_pending_data = <<>>,
              !.link_pending_sent_at = 0,
              !.link_pending_retries = 0,
              !.link_last_rx_time = 0,
              !.link_last_tx_time = 0,
              !.link_last_hello_time = 0,
              !.link_handshake_start = 0])

\* Called only with the link's qsocket (the callers test link_socket first).
Link_QueueSocketMessage(c, msgtype, data) ==
    IF c.link_socket = NULL THEN Ok(c, FALSE)
    ELSE IF Len(data) > LINK_MAX_PAYLOAD THEN Ok(c, FALSE)
    ELSE IF IntAlign(ReceiveMessageLength(c.sock_receiveMessage) + Len(data) + 4)
              > NET_MAXMESSAGE THEN Ok(c, FALSE)
    ELSE [c EXCEPT !.sock_receiveMessage =
                       Append(@, [msgtype |-> msgtype, data |-> data]),
                   !.ok = TRUE]

\* NET_NewQSocket: the free qsocket, or NULL when the link's is in use.
NET_NewQSocket(c) == IF c.sock_disconnected THEN LinkSock ELSE NULL

\* Draws the next entry of the schedule into cur.  An exhausted schedule
\* pumps nothing and finds space, and the call is marked starved.
Draw(c) ==
    IF c.sched = <<>> THEN [c EXCEPT !.cur = DefaultEntry, !.starved = TRUE]
    ELSE [c EXCEPT !.cur = Head(c.sched), !.sched = Tail(c.sched)]

RECURSIVE Link_PumpRx(_, _)
RECURSIVE Link_SendFrame(_, _, _, _)
RECURSIVE Link_HandleFrame(_, _, _, _)

\* The waits of one frame send (3 words, then 1 word per payload word) as one
\* wait: every spin pumps the receive channel before it reads the TX space.
Link_TxWaitSpace_Space(c1, ok) == Ok(c1, ok /\ c1.room > 0)

Link_TxWaitSpace_Spin(c0) == Link_TxWaitSpace_Space(Link_PumpRx(c0, c0.cur.n), c0.cur.ok)

\* Word by word every spin of the wait is one schedule entry.
RECURSIVE Link_TxWaitSpace_Spins(_, _)
Link_TxWaitSpace_Spun(c1, spins) ==
    IF c1.ok THEN c1 ELSE Link_TxWaitSpace_Spins(c1, spins + 1)

Link_TxWaitSpace_Spins(c, spins) ==
    IF spins >= LINK_TX_SPINS THEN Ok(c, FALSE)
    ELSE Link_TxWaitSpace_Spun(
           Link_TxWaitSpace_Spin(Draw([c EXCEPT !.steps = @ + 1])), spins)

\* A wait that spins once more than LINK_TX_SPINS times.
Link_TxWaitSpace_Patient(c) ==
    IF c.words THEN Link_TxWaitSpace_Spins(c, -1) ELSE Link_TxWaitSpace_Spin(Draw(c))

Link_TxWaitSpace(c) ==
    IF c.words THEN Link_TxWaitSpace_Spins(c, 0) ELSE Link_TxWaitSpace_Spin(Draw(c))

\* A failed wait leaves no frame in the channel: the words of a frame cut
\* short after its header never pass the peer's checksum.
Link_SendFrame_Write(c1, type, seq, payload) ==
    IF ~c1.ok
    THEN [c1 EXCEPT !.link_sending_frame = FALSE, !.ok = FALSE]
    ELSE [c1 EXCEPT !.tx = Append(@, Frame(type, seq, payload)),
                    !.room = @ - 1,
                    !.link_sending_frame = FALSE,
                    !.link_last_tx_time = Link_TimeNow(c1),
                    !.nrel = IF type = LINK_PKT_RELIABLE THEN @ + 1 ELSE @,
                    !.ok = TRUE]

\* Word by word: the payload words from byte i on, each after its own wait.
RECURSIVE Link_SendFrame_Payload(_, _, _, _)
Link_SendFrame_PayloadWord(c1, type, payload, i) ==
    IF ~c1.ok
    THEN [c1 EXCEPT !.link_sending_frame = FALSE, !.ok = FALSE]
    ELSE Link_SendFrame_Payload(
           [c1 EXCEPT !.tx = Append(@, PayloadWord(payload, i)), !.steps = @ + 1],
           type, payload, i + 4)

Link_SendFrame_Payload(c, type, payload, i) ==
    IF i < Len(payload)
    THEN Link_SendFrame_PayloadWord(Link_TxWaitSpace(c), type, payload, i)
    ELSE [c EXCEPT !.link_sending_frame = FALSE,
                   !.link_last_tx_time = Link_TimeNow(c),
                   !.nrel = IF type = LINK_PKT_RELIABLE THEN @ + 1 ELSE @,
                   !.ok = TRUE]

\* Word by word: the three header words after the wait for their space.
Link_SendFrame_Header(c1, type, seq, payload) ==
    IF ~c1.ok
    THEN [c1 EXCEPT !.link_sending_frame = FALSE, !.ok = FALSE]
    ELSE Link_SendFrame_Payload(
           [c1 EXCEPT !.tx = @ \o <<LINK_FRAME_MAGIC,
                                    HeaderWord(type, seq, Len(payload)),
                                    CrcWord(Link_FrameCRC(type, seq, payload))>>],
           type, payload, 0)

\* A frame send that does not test link_sending_frame.
Link_SendFrame_Unguarded(c, type, seq, payload) ==
    IF ~c.link_hw_present THEN Ok(c, FALSE)
    ELSE IF Len(payload) > LINK_MAX_PAYLOAD THEN Ok(c, FALSE)
    ELSE IF c.words
    THEN Link_SendFrame_Header(
           Link_TxWaitSpace([c EXCEPT !.link_sending_frame = TRUE]),
           type, seq, payload)
    ELSE Link_SendFrame_Write(
           Link_TxWaitSpace([c EXCEPT !.link_sending_frame = TRUE]),
           type, seq, payload)

Link_SendFrame(c, type, seq, payload) ==
    IF ~c.link_hw_present THEN Ok(c, FALSE)
    ELSE IF c.link_sending_frame THEN Ok(c, FALSE)
    ELSE IF Len(payload) > LINK_MAX_PAYLOAD THEN Ok(c, FALSE)
    ELSE IF c.words
    THEN Link_SendFrame_Header(
           Link_TxWaitSpace([c EXCEPT !.link_sending_frame = TRUE]),
           type, seq, payload)
    ELSE Link_SendFrame_Write(
           Link_TxWaitSpace([c EXCEPT !.link_sending_frame = TRUE]),
           type, seq, payload)

\* Link_OnHello from the allocation of the qsocket to the state it sets.
\* Link_SetRole flushes both FIFOs; a flushed frame is a lost frame (LoseFrame).
Link_OnHello_Accept(c) ==
    [c EXCEPT !.link_socket = IF @ = NULL THEN NET_NewQSocket(c) ELSE @,
              !.sock_disconnected = IF c.link_socket = NULL THEN FALSE ELSE @,
              !.sock_receiveMessage = IF c.link_socket = NULL THEN <<>> ELSE @,
              !.link_server_side = TRUE,
              !.link_state = LINK_STATE_CONNECTED,
              !.link_transport_dead = FALSE,
              !.dead_reason = "none",
              !.link_incoming_pending = TRUE,
              !.link_waiting_ack = FALSE,
              !.link_pending_len = 0,
              !.link_pending_data = <<>>,
              !.link_pending_retries = 0,
              !.link_tx_rel_seq = 0,
              !.link_rx_rel_seq = 0,
              !.link_last_rx_time = Link_TimeNow(c),
              !.link_last_tx_time = Link_TimeNow(c),
              !.sock_canSend = TRUE]

\* A HELLO accepted anew even when the session is Connected.
Link_OnHello_Reaccept(c) ==
    IF ~c.link_listening THEN c
    ELSE IF c.link_socket = NULL /\ NET_NewQSocket(c) = NULL THEN c
    ELSE Link_SendFrame(Link_OnHello_Accept(c), LINK_PKT_HELLO_ACK, 0, <<>>)

Link_OnHello(c) ==
    IF ~c.link_listening THEN c
    ELSE IF c.link_state # LINK_STATE_CONNECTED
            /\ c.link_socket = NULL /\ NET_NewQSocket(c) = NULL THEN c
    ELSE Link_SendFrame(
           IF c.link_state = LINK_STATE_CONNECTED THEN c ELSE Link_OnHello_Accept(c),
           LINK_PKT_HELLO_ACK, 0, <<>>)

\* A HELLO-ACK that is never acted upon.
Link_OnHelloAck_Ignored(c) == c

\* A HELLO-ACK acted upon in every state of an Initiator.
Link_OnHelloAck_AnyState(c) ==
    IF c.link_socket = NULL \/ c.link_server_side THEN c
    ELSE [c EXCEPT !.link_state = LINK_STATE_CONNECTED,
                   !.link_transport_dead = FALSE,
                   !.dead_reason = "none",
                   !.link_last_rx_time = Link_TimeNow(c),
                   !.link_last_tx_time = Link_TimeNow(c),
                   !.link_pending_retries = 0,
                   !.sock_canSend = TRUE]

Link_OnHelloAck(c) ==
    IF c.link_socket = NULL \/ c.link_server_side THEN c
    ELSE IF c.link_state # LINK_STATE_HANDSHAKE THEN c
    ELSE [c EXCEPT !.link_state = LINK_STATE_CONNECTED,
                   !.link_transport_dead = FALSE,
                   !.dead_reason = "none",
                   !.link_last_rx_time = Link_TimeNow(c),
                   !.link_last_tx_time = Link_TimeNow(c),
                   !.link_pending_retries = 0,
                   !.sock_canSend = TRUE]

\* A RELIABLE frame the queue cannot hold dropped like an UNRELIABLE one.
Link_OnReliable_Queued_Dropped(c1, seq, payload) ==
    IF ~c1.ok
    THEN c1
    ELSE Link_SendFrame(
           [c1 EXCEPT !.link_rx_rel_seq = Byte(@ + 1),
                      !.delivered = Append(@, payload)],
           LINK_PKT_RELIABLE_ACK, seq, <<>>)

\* Link_OnReliable after Link_QueueSocketMessage, for seq = link_rx_rel_seq.
Link_OnReliable_Queued(c1, seq, payload) ==
    IF ~c1.ok
    THEN Link_MarkTransportDead(c1, "rx_queue_overflow")
    ELSE Link_SendFrame(
           [c1 EXCEPT !.link_rx_rel_seq = Byte(@ + 1),
                      !.delivered = Append(@, payload)],
           LINK_PKT_RELIABLE_ACK, seq, <<>>)

\* The next expected sequence number taken for the last one handled.
last_good_Next(c) == c.link_rx_rel_seq

last_good(c) == Byte(c.link_rx_rel_seq + 255)

\* A RELIABLE frame queued whatever its sequence number.
Link_OnReliable_Requeue(c, seq, payload) ==
    IF c.link_socket = NULL \/ c.link_state # LINK_STATE_CONNECTED THEN c
    ELSE Link_OnReliable_Queued(Link_QueueSocketMessage(c, 1, payload), seq, payload)

\* A RELIABLE frame out of sequence acknowledged with its own seq.
Link_OnReliable_AckAny(c, seq, payload) ==
    IF c.link_socket = NULL \/ c.link_state # LINK_STATE_CONNECTED THEN c
    ELSE IF seq = c.link_rx_rel_seq
    THEN Link_OnReliable_Queued(Link_QueueSocketMessage(c, 1, payload), seq, payload)
    ELSE Link_SendFrame(c, LINK_PKT_RELIABLE_ACK, seq, <<>>)

Link_OnReliable(c, seq, payload) ==
    IF c.link_socket = NULL \/ c.link_state # LINK_STATE_CONNECTED THEN c
    ELSE IF seq = c.link_rx_rel_seq
    THEN Link_OnReliable_Queued(Link_QueueSocketMessage(c, 1, payload), seq, payload)
    ELSE Link_SendFrame(c, LINK_PKT_RELIABLE_ACK,
                        IF seq = last_good(c) THEN seq ELSE last_good(c), <<>>)

Link_OnReliableAck(c, seq) ==
    IF ~c.link_waiting_ack THEN c
    ELSE IF seq # c.link_pending_seq THEN c
    ELSE [c EXCEPT !.link_waiting_ack = FALSE,
                   !.link_pending_len = 0,
                   !.link_pending_data = <<>>,
                   !.link_pending_retries = 0,
                   !.sock_canSend = IF c.link_socket # NULL THEN TRUE ELSE @]

\* The switch of Link_HandleFrame, link_last_rx_time already set.
Link_HandleFrame_Switch(c1, type, seq, payload) ==
    CASE type = LINK_PKT_HELLO -> Link_OnHello(c1)
      [] type = LINK_PKT_HELLO_ACK -> Link_OnHelloAck(c1)
      [] type = LINK_PKT_RELIABLE -> Link_OnReliable(c1, seq, payload)
      [] type = LINK_PKT_RELIABLE_ACK -> Link_OnReliableAck(c1, seq)
      [] type = LINK_PKT_UNRELIABLE ->
            IF c1.link_socket # NULL /\ c1.link_state = LINK_STATE_CONNECTED
            THEN Link_QueueSocketMessage(c1, 2, payload)
            ELSE c1
      [] type = LINK_PKT_KEEPALIVE -> c1
      [] type = LINK_PKT_RESET -> Link_MarkTransportDead(c1, "reset_pkt")
      [] OTHER -> c1

\* handled: the frames handed to Link_HandleFrame during the call.
Link_HandleFrame(c, type, seq, payload) ==
    Link_HandleFrame_Switch([c EXCEPT !.link_last_rx_time = Link_TimeNow(c),
                                      !.handled = Append(@, Frame(type, seq, payload))],
                            type, seq, payload)

\* The parser as Link_ConsumeRxWord leaves it when the last word of frame f
\* has been read and the frame is about to be handled.
Link_ConsumeRxWord_Parsed(c0, f) ==
    [c0 EXCEPT !.link_rx_state = IF Len(f.data) = 0 THEN LINK_RX_WAIT_CRC
                                 ELSE LINK_RX_WAIT_PAYLOAD,
               !.link_rx_type = f.type,
               !.link_rx_seq = f.seq,
               !.link_rx_payload = f.data]

(***************************************************************************)
(* Link_ConsumeRxWord over the words of the frame at the head of the       *)
(* channel.  From WAIT_MAGIC the words are parsed, the frame is handed to  *)
(* Link_HandleFrame with the parser still in WAIT_CRC or WAIT_PAYLOAD, and *)
(* the parser is reset after the handler returns.  A pump that runs inside *)
(* that handler (through a send's wait for space) finds the parser in that *)
(* state: the magic word of the next frame is taken as the checksum        *)
(* (WAIT_CRC: it never matches, only type 34 seq 251 has checksum 0x4D45)  *)
(* or as one more payload word (WAIT_PAYLOAD: nothing is stored, the       *)
(* checksum of the held frame matches again and the held frame is handled  *)
(* again); the parser is reset and the other words of that frame are       *)
(* skipped in WAIT_MAGIC.                                                  *)
(***************************************************************************)
Link_ConsumeRxWord_Frame(c) ==
    IF c.link_rx_state = LINK_RX_WAIT_CRC
       \/ (c.link_rx_state = LINK_RX_WAIT_MAGIC
           /\ Len(Head(c.rx).data) > LINK_MAX_PAYLOAD)
    THEN Link_ResetParser([c EXCEPT !.rx = Tail(@)])
    ELSE Link_ResetParser(
           Link_HandleFrame(
             IF c.link_rx_state = LINK_RX_WAIT_MAGIC
             THEN Link_ConsumeRxWord_Parsed([c EXCEPT !.rx = Tail(@)], Head(c.rx))
             ELSE [c EXCEPT !.rx = Tail(@)],
             IF c.link_rx_state = LINK_RX_WAIT_MAGIC
             THEN Head(c.rx).type ELSE c.link_rx_type,
             IF c.link_rx_state = LINK_RX_WAIT_MAGIC
             THEN Head(c.rx).seq ELSE c.link_rx_seq,
             IF c.link_rx_state = LINK_RX_WAIT_MAGIC
             THEN Head(c.rx).data ELSE c.link_rx_payload))

\* A parser that handles the frame whatever its checksum word.
Link_ConsumeRxWord_Unchecked(c1) ==
    Link_ResetParser(
      Link_HandleFrame(c1, c1.link_rx_type, c1.link_rx_seq,
                       SubSeq(c1.link_rx_payload, 1, c1.link_rx_len)))

\* The frame is handled when its checksum is the one received, and the
\* parser is reset after the handler has returned.
Link_ConsumeRxWord_Check(c1) ==
    Link_ResetParser(
      IF Link_FrameCRC(c1.link_rx_type, c1.link_rx_seq,
                       SubSeq(c1.link_rx_payload, 1, c1.link_rx_len)) = c1.link_rx_crc
      THEN Link_HandleFrame(c1, c1.link_rx_type, c1.link_rx_seq,
                            SubSeq(c1.link_rx_payload, 1, c1.link_rx_len))
      ELSE [c1 EXCEPT !.link_rx_crc_fail_count = @ + 1])

\* The four stores without the tests against link_rx_len.
Link_ConsumeRxWord_Store_Untested(c, word, base) ==
    [c EXCEPT !.link_rx_payload =
        [i \in 1..Len(@) |->
            IF i - 1 >= base /\ i - 1 < base + 4
            THEN word[i - base] ELSE @[i]],
              !.link_rx_words_seen = @ + 1]

\* The four stores of LINK_RX_WAIT_PAYLOAD, from buffer index base on.
Link_ConsumeRxWord_Store(c, word, base) ==
    [c EXCEPT !.link_rx_payload =
        [i \in 1..Len(@) |->
            IF i - 1 >= base /\ i - 1 < base + 4 /\ i - 1 < c.link_rx_len
            THEN word[i - base] ELSE @[i]],
              !.link_rx_words_seen = @ + 1]

Link_ConsumeRxWord_Payload(c1) ==
    IF c1.link_rx_words_seen < c1.link_rx_words_needed THEN c1
    ELSE Link_ConsumeRxWord_Check(c1)

\* Link_ConsumeRxWord on one word of the FIFO.
Link_ConsumeRxWord_Word(c, word) ==
    CASE c.link_rx_state = LINK_RX_WAIT_MAGIC ->
            IF word = LINK_FRAME_MAGIC
            THEN [c EXCEPT !.link_rx_state = LINK_RX_WAIT_HEADER]
            ELSE c
      [] c.link_rx_state = LINK_RX_WAIT_HEADER ->
            IF Low16(word) > LINK_MAX_PAYLOAD
            THEN Link_ResetParser(c)
            ELSE [c EXCEPT !.link_rx_type = word[4],
                           !.link_rx_seq = word[3],
                           !.link_rx_len = Low16(word),
                           !.link_rx_words_needed = (Low16(word) + 3) \div 4,
                           !.link_rx_words_seen = 0,
                           !.link_rx_state = LINK_RX_WAIT_CRC]
      [] c.link_rx_state = LINK_RX_WAIT_CRC ->
            IF c.link_rx_words_needed = 0
            THEN Link_ConsumeRxWord_Check([c EXCEPT !.link_rx_crc = Low16(word)])
            ELSE [c EXCEPT !.link_rx_crc = Low16(word),
                           !.link_rx_state = LINK_RX_WAIT_PAYLOAD]
      [] c.link_rx_state = LINK_RX_WAIT_PAYLOAD ->
            Link_ConsumeRxWord_Payload(
              Link_ConsumeRxWord_Store(c, word, c.link_rx_words_seen * 4))
      [] OTHER -> Link_ResetParser(c)

\* found: the parser state each word of the call found.
Link_ConsumeRxWord(c) ==
    IF c.words
    THEN Link_ConsumeRxWord_Word(
           [c EXCEPT !.rx = Tail(@), !.steps = @ + 1,
                     !.found = Append(@, c.link_rx_state)],
           Head(c.rx))
    ELSE Link_ConsumeRxWord_Frame(c)

\* n: the frames whose words have arrived when the pump finds the channel
\* empty (their words stay below LINK_POLL_WORD_BUDGET); word by word, the
\* words that have arrived, of which one pump takes LINK_POLL_WORD_BUDGET.
Link_PumpRx(c, n) ==
    IF n = 0 \/ c.rx = <<>> THEN c
    ELSE Link_PumpRx(Link_ConsumeRxWord(c),
                     (IF c.words /\ n > LINK_POLL_WORD_BUDGET
                      THEN LINK_POLL_WORD_BUDGET ELSE n) - 1)

\* Link_PollTimers, Handshake: the HELLO resend, then the handshake timeout.
\* A HELLO resend that is not timed.
Link_PollTimers_HelloSent_Untimed(c2) == c2

Link_PollTimers_HelloSent(c2) ==
    IF c2.ok THEN [c2 EXCEPT !.link_last_hello_time = Link_TimeNow(c2)] ELSE c2

Link_PollTimers_HandshakeTimeout(c1) ==
    IF (Link_TimeNow(c1) - c1.link_handshake_start) >= LINK_CONNECT_TIMEOUT
    THEN Link_MarkTransportDead(c1, "handshake_timeout")
    ELSE c1

\* Link_PollTimers, Connected: the retransmission, the keepalive, the peer
\* timeout.
Link_PollTimers_Resent(c2) ==
    IF c2.ok
    THEN [c2 EXCEPT !.link_pending_sent_at = Link_TimeNow(c2),
                    !.link_pending_retries = @ + 1]
    ELSE c2

Link_PollTimers_Retry(c) ==
    IF c.link_waiting_ack
       /\ (Link_TimeNow(c) - c.link_pending_sent_at) >= LINK_RETRY_INTERVAL
    THEN Link_PollTimers_Resent(
           Link_SendFrame(c, LINK_PKT_RELIABLE, c.link_pending_seq,
                          SubSeq(c.link_pending_data, 1, c.link_pending_len)))
    ELSE c

\* A Poll that sends no KEEPALIVE.
Link_PollTimers_Keepalive_Off(c1) == c1

Link_PollTimers_Keepalive(c1) ==
    IF (Link_TimeNow(c1) - c1.link_last_tx_time) >= LINK_KEEPALIVE_INTERVAL
    THEN Link_SendFrame(c1, LINK_PKT_KEEPALIVE, 0, <<>>)
    ELSE c1

\* The peer timeout taken only after more than LINK_PEER_TIMEOUT.
Link_PollTimers_PeerTimeout_Strict(c3) ==
    IF (Link_TimeNow(c3) - c3.link_last_rx_time) > LINK_PEER_TIMEOUT
    THEN Link_MarkTransportDead(c3, "peer_timeout")
    ELSE c3

\* The peer timeout taken after LINK_KEEPALIVE_INTERVAL of silence.
Link_PollTimers_PeerTimeout_Early(c3) ==
    IF (Link_TimeNow(c3) - c3.link_last_rx_time) >= LINK_KEEPALIVE_INTERVAL
    THEN Link_MarkTransportDead(c3, "peer_timeout")
    ELSE c3

Link_PollTimers_PeerTimeout(c3) ==
    IF (Link_TimeNow(c3) - c3.link_last_rx_time) >= LINK_PEER_TIMEOUT
    THEN Link_MarkTransportDead(c3, "peer_timeout")
    ELSE c3

Link_PollTimers(c) ==
    IF c.link_state = LINK_STATE_HANDSHAKE
    THEN Link_PollTimers_HandshakeTimeout(
           IF (Link_TimeNow(c) - c.link_last_hello_time) >= LINK_HELLO_INTERVAL
           THEN Link_PollTimers_HelloSent(Link_SendFrame(c, LINK_PKT_HELLO, 0, <<>>))
           ELSE c)
    ELSE IF c.link_state # LINK_STATE_CONNECTED THEN c
    ELSE IF c.link_waiting_ack
            /\ (Link_TimeNow(c) - c.link_pending_sent_at) >= LINK_RETRY_INTERVAL
            /\ c.link_pending_retries >= LINK_MAX_RETRIES
    THEN Link_MarkTransportDead(c, "max_retries")
    ELSE Link_PollTimers_PeerTimeout(
           Link_PollTimers_Keepalive(Link_PollTimers_Retry(c)))

\* The first schedule entry is the top-level pump's.
Link_Poll_Drawn(c0) == Link_PollTimers(Link_PumpRx(c0, c0.cur.n))

Link_Poll(c) == IF ~c.link_hw_present THEN c ELSE Link_Poll_Drawn(Draw(c))

(************************** public entry points ****************************)

\* Link_SearchForHosts: Link_Poll, then the host cache (not modelled).
Link_SearchForHosts(c) == Link_Poll(c)

Link_Listen(c, state) ==
    [c EXCEPT !.link_listening = state,
              !.link_incoming_pending =
                  IF ~state /\ c.link_server_side THEN FALSE ELSE @]

Link_CheckNewConnections_Polled(c1) ==
    IF ~c1.link_hw_present \/ ~c1.link_listening THEN Ret(c1, NULL)
    ELSE IF c1.link_transport_dead \/ c1.link_state # LINK_STATE_CONNECTED
    THEN Ret(c1, NULL)
    ELSE IF ~c1.link_incoming_pending \/ c1.link_socket = NULL THEN Ret(c1, NULL)
    ELSE [c1 EXCEPT !.link_incoming_pending = FALSE,
                    !.sock_canSend = ~c1.link_waiting_ack,
                    !.held = TRUE,
                    !.ret = c1.link_socket]

Link_CheckNewConnections(c) == Link_CheckNewConnections_Polled(Link_Poll(c))

Link_GetMessage_Polled(c1) ==
    IF c1.link_transport_dead THEN Ret(c1, -1)
    ELSE IF c1.sock_receiveMessage = <<>> THEN Ret(c1, 0)
    ELSE [c1 EXCEPT !.sock_receiveMessage = Tail(@),
                    !.got = <<Head(c1.sock_receiveMessage)>>,
                    !.ret = Head(c1.sock_receiveMessage).msgtype]

Link_GetMessage(c, sock) ==
    IF sock = NULL \/ sock # c.link_socket THEN Ret(c, -1)
    ELSE Link_GetMessage_Polled(Link_Poll(c))

\* Link_SendMessage after a successful frame send.
\* A pending message stored without advancing link_tx_rel_seq.
Link_SendMessage_Sent_Late(c2, data) ==
    IF ~c2.ok THEN Ret(c2, 0)
    ELSE [c2 EXCEPT !.link_pending_data = data,
                    !.link_pending_len = Len(data),
                    !.link_pending_seq = c2.link_tx_rel_seq,
                    !.link_pending_sent_at = Link_TimeNow(c2),
                    !.link_pending_retries = 0,
                    !.link_waiting_ack = TRUE,
                    !.sock_canSend = FALSE,
                    !.accepted = Append(@, data),
                    !.ret = 1]

Link_SendMessage_Sent(c2, data) ==
    IF ~c2.ok THEN Ret(c2, 0)
    ELSE [c2 EXCEPT !.link_pending_data = data,
                    !.link_pending_len = Len(data),
                    !.link_pending_seq = c2.link_tx_rel_seq,
                    !.link_pending_sent_at = Link_TimeNow(c2),
                    !.link_pending_retries = 0,
                    !.link_waiting_ack = TRUE,
                    !.link_tx_rel_seq = Byte(@ + 1),
                    !.sock_canSend = FALSE,
                    !.accepted = Append(@, data),
                    !.ret = 1]

\* Link_SendMessage from the tests that follow its Link_Poll; mid records
\* the session as those tests find it.
Link_SendMessage_Polled(c1, data) ==
    IF c1.link_transport_dead THEN Ret(c1, -1)
    ELSE IF c1.link_state # LINK_STATE_CONNECTED THEN Ret(c1, 0)
    ELSE IF c1.link_waiting_ack THEN Ret(c1, 0)
    ELSE Link_SendMessage_Sent(
           Link_SendFrame(c1, LINK_PKT_RELIABLE, c1.link_tx_rel_seq, data), data)

Link_SendMessage_Mid(c0) == [c0 EXCEPT !.mid = [Snap(c0) EXCEPT !.ntx = Len(c0.tx)]]

\* A Send that decides without polling first.
Link_SendMessage_Unpolled(c, sock, data) ==
    IF sock = NULL \/ sock # c.link_socket THEN Ret(c, -1)
    ELSE IF Len(data) > LINK_MAX_PAYLOAD THEN Ret(c, -1)
    ELSE Link_SendMessage_Polled(Link_SendMessage_Mid(c), data)

Link_SendMessage(c, sock, data) ==
    IF sock = NULL \/ sock # c.link_socket THEN Ret(c, -1)
    ELSE IF Len(data) > LINK_MAX_PAYLOAD THEN Ret(c, -1)
    ELSE Link_SendMessage_Polled(Link_SendMessage_Mid(Link_Poll(c)), data)

Link_SendUnreliableMessage_Sent(c2) == IF ~c2.ok THEN Ret(c2, 0) ELSE Ret(c2, 1)

Link_SendUnreliableMessage_Polled(c1, data) ==
    IF c1.link_transport_dead THEN Ret(c1, -1)
    ELSE IF c1.link_state # LINK_STATE_CONNECTED THEN Ret(c1, 0)
    ELSE Link_SendUnreliableMessage_Sent(
           Link_SendFrame(c1, LINK_PKT_UNRELIABLE, 0, data))

Link_SendUnreliableMessage(c, sock, data) ==
    IF sock = NULL \/ sock # c.link_socket THEN Ret(c, -1)
    ELSE IF Len(data) > LINK_MAX_PAYLOAD THEN Ret(c, 0)
    ELSE Link_SendUnreliableMessage_Polled(Link_Poll(c), data)

Link_CanSendMessage_Polled(c1) ==
    IF c1.link_transport_dead \/ c1.link_state # LINK_STATE_CONNECTED
    THEN Ret(c1, FALSE)
    ELSE Ret(c1, ~c1.link_waiting_ack)

Link_CanSendMessage(c, sock) ==
    IF sock = NULL \/ sock # c.link_socket THEN Ret(c, FALSE)
    ELSE Link_CanSendMessage_Polled(Link_Poll(c))

\* Link_Close after its RESET frame: the link's qsocket is detached and its
\* fields are cleared.
Link_Close_Detach(c1, sock) ==
    [c1 EXCEPT !.link_socket = IF sock = c1.link_socket THEN NULL ELSE @,
               !.sock_receiveMessage = IF sock = LinkSock THEN <<>> ELSE @,
               !.sock_canSend = IF sock = LinkSock THEN TRUE ELSE @]

\* A Close that resets the session only when its RESET frame was sent.
Link_Close_IfSent_After(c1, sock) ==
    IF c1.ok THEN Link_ResetSession(Link_Close_Detach(c1, sock)) ELSE c1

Link_Close_IfSent(c, sock) ==
    IF c.link_hw_present /\ c.link_state = LINK_STATE_CONNECTED
    THEN Link_Close_IfSent_After(Link_SendFrame(c, LINK_PKT_RESET, 0, <<>>), sock)
    ELSE Link_ResetSession(Link_Close_Detach(c, sock))

\* sock is never NULL here.  The caller frees the qsocket it closed
\* (NET_Close, and Link_Connect after its own Link_Close).
Link_Close(c, sock) ==
    Link_ResetSession(
      Link_Close_Detach(
        IF c.link_hw_present /\ c.link_state = LINK_STATE_CONNECTED
        THEN Link_SendFrame(c, LINK_PKT_RESET, 0, <<>>)
        ELSE c,
        sock))

NET_FreeQSocket(c, sock) ==
    IF sock = LinkSock
    THEN [c EXCEPT !.sock_disconnected = TRUE, !.held = FALSE]
    ELSE c

\* A handshake entered without a HELLO frame.
Link_Connect_Hello_Silent(c1) ==
    [c1 EXCEPT !.link_server_side = FALSE,
               !.link_state = LINK_STATE_HANDSHAKE,
               !.link_handshake_start = Link_TimeNow(c1),
               !.link_last_hello_time = 0,
               !.link_last_rx_time = Link_TimeNow(c1),
               !.link_last_tx_time = Link_TimeNow(c1)]

\* Link_Connect from the new qsocket to its first HELLO.
Link_Connect_Hello(c1) ==
    Link_SendFrame(
      [c1 EXCEPT !.link_server_side = FALSE,
                 !.link_state = LINK_STATE_HANDSHAKE,
                 !.link_handshake_start = Link_TimeNow(c1),
                 !.link_last_hello_time = 0,
                 !.link_last_rx_time = Link_TimeNow(c1),
                 !.link_last_tx_time = Link_TimeNow(c1)],
      LINK_PKT_HELLO, 0, <<>>)

\* Link_Connect as it enters its polling loop.
Link_Connect_Loop(c2, lag) ==
    [c2 EXCEPT !.link_last_hello_time = Link_TimeNow(c2) + lag,
               !.deadline = Link_TimeNow(c2) + lag + LINK_CONNECT_TIMEOUT,
               !.pc = "connecting",
               !.ret = NULL]

\* Link_Connect up to its polling loop; lag is the time its HELLO send took.
Link_Connect(c, lag) ==
    IF ~c.link_hw_present THEN Ret(c, NULL)
    ELSE IF c.link_socket # NULL /\ ~c.sock_disconnected THEN Ret(c, NULL)
    ELSE IF NET_NewQSocket(c) = NULL THEN [c EXCEPT !.link_socket = NULL, !.ret = NULL]
    ELSE Link_Connect_Loop(
           Link_Connect_Hello(
             Link_ResetSession(
               [c EXCEPT !.link_socket = NET_NewQSocket(c),
                         !.sock_disconnected = FALSE,
                         !.sock_receiveMessage = <<>>,
                         !.sock_canSend = FALSE])),
           lag)

Link_ConnectPoll_Polled(c1) ==
    IF c1.link_state = LINK_STATE_CONNECTED /\ ~c1.link_transport_dead
    THEN [c1 EXCEPT !.pc = "idle", !.deadline = 0, !.held = TRUE,
                    !.ret = c1.link_socket]
    ELSE Ret(c1, NULL)

\* One turn of the polling loop of Link_Connect.
Link_ConnectPoll(c) == Link_ConnectPoll_Polled(Link_Poll(c))

Link_ConnectTimeout_End(c1) ==
    [c1 EXCEPT !.link_socket = NULL, !.pc = "idle", !.deadline = 0, !.ret = NULL]

\* Link_Connect once the deadline has passed.
Link_ConnectTimeout(c) ==
    Link_ConnectTimeout_End(
      IF c.link_socket = NULL THEN c
      ELSE NET_FreeQSocket(Link_Close(c, c.link_socket), c.link_socket))

(****************************** the system *********************************)

InitObs ==
    [ retx |-> 0, accepted |-> <<>>, delivered |-> <<>>, connects |-> 0 ]

Init ==
    /\ link = [p \in Peers |-> InitSession]
    /\ wire = [p \in Peers |-> <<>>]
    /\ now = 0
    /\ obs = [p \in Peers |-> InitObs]

\* The entries a call can draw when m frames are still on their way; top:
\* the entry is for the pump of Link_Poll, which waits for no TX space.
Entries(m, top) == [n : 0..m, ok : IF top THEN {TRUE} ELSE BOOLEAN]

RECURSIVE PlanN(_)
PlanN(plan) == IF plan = <<>> THEN 0 ELSE Head(plan).n + PlanN(Tail(plan))

Planned(c0, plan) == [c0 EXCEPT !.sched = plan, !.plan = plan]

\* The schedules that extend by one entry each run that ran out of entries.
Extend(c0, runs) ==
    UNION {{Planned(c0, Append(c.plan, e)) :
               e \in Entries(Len(c0.rx) - PlanN(c.plan), FALSE)} :
           c \in {r \in runs : r.starved}}

Finished(runs) == {r \in runs : ~r.starved}

\* The runs of handler H under every schedule of one entry.
Run(H(_), c0, top) == {H(Planned(c0, <<e>>)) : e \in Entries(Len(c0.rx), top)}

\* The runs that have read their whole schedule run again under each
\* schedule one entry longer, until schedules have k more entries.
RECURSIVE More(_, _, _, _)
More(H(_), c0, runs, k) ==
    IF k = 0 THEN runs
    ELSE More(H, c0, Finished(runs) \cup {H(x) : x \in Extend(c0, runs)}, k - 1)

\* The end states of handler H from context c0, one for each way the peer's
\* frames can arrive during the call and the transport can offer TX space:
\* a schedule is drawn entry by entry, as far as the call reads it.
Runs(H(_), c0, top) == More(H, c0, Run(H, c0, top), MaxSched - 1)

Outcomes(H(_), c0, top) ==
    {[c EXCEPT !.plan = <<>>, !.sched = <<>>, !.cur = DefaultEntry, !.starved = FALSE] :
        c \in Runs(H, c0, top)}

\* Endpoint p runs entry point op to the end state c of its context.  With
\* a modelled peer (two) the frames it wrote join the peer's channel.
Done(p, two, op, c) ==
    /\ link' = [link EXCEPT ![p] = Session(c)]
    /\ wire' = IF two THEN [wire EXCEPT ![p] = c.rx, ![Other(p)] = @ \o c.tx]
                      ELSE [wire EXCEPT ![p] = c.rx]
    /\ obs' = [obs EXCEPT ![p] =
                 [@ EXCEPT !.retx = IF c.accepted # <<>> THEN 0 ELSE @ + c.nrel,
                           !.accepted = IF two THEN @ \o c.accepted ELSE @,
                           !.delivered = IF two THEN @ \o c.delivered ELSE @,
                           !.connects = IF two /\ op = "Connect" THEN @ + 1 ELSE @]]

Call(p, two, op, c) == Done(p, two, op, c) /\ UNCHANGED now

\* The TX channel has room for the frames the peer's channel can still
\* take; without a modelled peer only the schedule decides.
Start(p, two) ==
    Ctx(link[p], wire[p],
        IF two THEN MaxWire - Len(wire[Other(p)]) ELSE MaxWire + MaxSched + 1,
        <<>>, now)

\* The context of endpoint p with frames rx in its receive channel.
StartWith(p, rx) == [Start(p, FALSE) EXCEPT !.rx = rx]

\* A run in whose sends the transport offered TX space and no frame arrived.
Clear(c) == \A i \in 1..Len(c.plan) : c.plan[i].ok /\ c.plan[i].n = 0

Idle(p) == link[p].pc = "idle"

\* The qsockets a caller can pass: the link's once it was returned to it,
\* and the qsocket that is not the link's.
Handles(p) == {OtherSock} \cup (IF link[p].held THEN {LinkSock} ELSE {})

Listen(p, two) ==
    /\ Idle(p)
    /\ \E b \in BOOLEAN : Call(p, two, "Listen", Link_Listen(Start(p, two), b))

Poll(p, two) ==
    /\ Idle(p)
    /\ \E c \in Outcomes(LAMBDA x : Link_SearchForHosts(x), Start(p, two), TRUE) :
          Call(p, two, "Poll", c)

CheckNewConnections(p, two) ==
    /\ Idle(p)
    /\ \E c \in Outcomes(LAMBDA x : Link_CheckNewConnections(x), Start(p, two), TRUE) :
          Call(p, two, "CheckNewConnections", c)

GetMessage(p, two) ==
    /\ Idle(p)
    /\ \E sock \in Handles(p) :
          \E c \in Outcomes(LAMBDA x : Link_GetMessage(x, sock), Start(p, two), TRUE) :
             Call(p, two, "GetMessage", c)

SendMessage(p, two) ==
    /\ Idle(p)
    /\ link[p].link_tx_rel_seq < MaxSends
    /\ \E sock \in Handles(p), data \in Payloads :
          \E c \in Outcomes(LAMBDA x : Link_SendMessage(x, sock, data),
                            Start(p, two), TRUE) :
             Call(p, two, "SendMessage", c)

SendUnreliableMessage(p, two) ==
    /\ Idle(p)
    /\ \E sock \in Handles(p), data \in Payloads :
          \E c \in Outcomes(LAMBDA x : Link_SendUnreliableMessage(x, sock, data),
                            Start(p, two), TRUE) :
             Call(p, two, "SendUnreliableMessage", c)

CanSendMessage(p, two) ==
    /\ Idle(p)
    /\ \E sock \in Handles(p) :
          \E c \in Outcomes(LAMBDA x : Link_CanSendMessage(x, sock), Start(p, two), TRUE) :
             Call(p, two, "CanSendMessage", c)

Close(p, two) ==
    /\ Idle(p)
    /\ \E sock \in Handles(p) :
          \E c \in Outcomes(LAMBDA x : NET_FreeQSocket(Link_Close(x, sock), sock),
                            Start(p, two), FALSE) :
             Call(p, two, "Close", c)

Connect(p, two, horizon) ==
    /\ Idle(p)
    /\ two => obs[p].connects < MaxConnects
    /\ \E lag \in {0, LINK_RETRY_INTERVAL} :
          /\ now + lag <= horizon
          /\ \E c \in Outcomes(LAMBDA x : Link_Connect(x, lag), Start(p, two), FALSE) :
                Done(p, two, "Connect", c)
          /\ now' = now + lag

ConnectPoll(p, two) ==
    /\ link[p].pc = "connecting"
    /\ now < link[p].deadline
    /\ \E c \in Outcomes(LAMBDA x : Link_ConnectPoll(x), Start(p, two), TRUE) :
          Call(p, two, "ConnectPoll", c)

ConnectTimeout(p, two) ==
    /\ link[p].pc = "connecting"
    /\ now >= link[p].deadline
    /\ \E c \in Outcomes(LAMBDA x : Link_ConnectTimeout(x), Start(p, two), FALSE) :
          Call(p, two, "ConnectTimeout", c)

\* A frame is lost on the cable, fails its checksum, or is flushed.
LoseFrame(p) ==
    /\ \E i \in 1..Len(wire[p]) :
          wire' = [wire EXCEPT ![p] = SubSeq(@, 1, i - 1) \o SubSeq(@, i + 1, Len(@))]
    /\ UNCHANGED <<link, now, obs>>

\* The clock moves on by one of the steps, up to the horizon.
Advance(steps, horizon) ==
    /\ \E d \in steps : now + d <= horizon /\ now' = now + d
    /\ UNCHANGED <<link, wire, obs>>

\* The frames a peer can put on the cable.
Seqs == {0, 1, 255}

Frames ==
    {Frame(t, 0, <<>>) : t \in {LINK_PKT_HELLO, LINK_PKT_HELLO_ACK,
                                 LINK_PKT_KEEPALIVE, LINK_PKT_RESET}}
    \cup {Frame(LINK_PKT_RELIABLE, q, <<7>>) : q \in Seqs}
    \cup {Frame(LINK_PKT_RELIABLE_ACK, q, <<>>) : q \in Seqs}
    \cup {Frame(LINK_PKT_UNRELIABLE, 0, <<7>>)}

\* A frame of an unmodelled peer arrives.
Inject(p, frames) ==
    /\ Len(wire[p]) < MaxWire
    /\ \E f \in frames : wire' = [wire EXCEPT ![p] = Append(@, f)]
    /\ UNCHANGED <<link, now, obs>>

\* One endpoint against an arbitrary peer, at one instant.
Next ==
    \/ Listen(1, FALSE)
    \/ Poll(1, FALSE)
    \/ CheckNewConnections(1, FALSE)
    \/ GetMessage(1, FALSE)
    \/ SendMessage(1, FALSE)
    \/ Close(1, FALSE)
    \/ Connect(1, FALSE, 0)
    \/ ConnectPoll(1, FALSE)
    \/ Inject(1, Frames)

Spec == Init /\ [][Next]_vars

\* One endpoint, its timers and the clock, with a peer that answers the
\* handshake and is silent from then on.  The clock moves in retry
\* intervals while a message is pending, to the last instant before the
\* deadline of Link_Connect while it polls, and by the peer timeout.
NextRetry ==
    \/ Connect(1, FALSE, LINK_RETRY_INTERVAL)
    \/ ConnectPoll(1, FALSE)
    \/ ConnectTimeout(1, FALSE)
    \/ Poll(1, FALSE)
    \/ SendMessage(1, FALSE)
    \/ (link[1].pc = "connecting" /\ Inject(1, {Frame(LINK_PKT_HELLO_ACK, 0, <<>>)}))
    \/ (link[1].link_waiting_ack /\ Advance({LINK_RETRY_INTERVAL}, MaxRetryNow))
    \/ (link[1].pc = "connecting"
           /\ Advance({LINK_CONNECT_TIMEOUT - LINK_RETRY_INTERVAL}, MaxNow))
    \/ Advance({LINK_PEER_TIMEOUT}, MaxNow)

SpecRetry == Init /\ [][NextRetry]_vars

\* Two peers on a lossy FIFO link: endpoint 1 connects and sends, endpoint
\* 2 listens and receives.
NextLink ==
    \/ Listen(2, TRUE)
    \/ CheckNewConnections(2, TRUE)
    \/ Connect(1, TRUE, 0)
    \/ ConnectPoll(1, TRUE)
    \/ SendMessage(1, TRUE)
    \/ CanSendMessage(1, TRUE)
    \/ GetMessage(2, TRUE)
    \/ \E p \in Peers : Poll(p, TRUE)
    \/ \E p \in Peers : LoseFrame(p)
    \/ Advance({LINK_RETRY_INTERVAL}, MaxLinkNow)

SpecLink == Init /\ [][NextLink]_vars

\* A listening endpoint that sends no reliable message, the frames of an
\* arbitrary peer and the clock.
NextLive ==
    \/ Listen(1, FALSE)
    \/ Poll(1, FALSE)
    \/ Inject(1, {f \in Frames : f.seq \in {0, 1}})
    \/ Advance({LINK_KEEPALIVE_INTERVAL, LINK_PEER_TIMEOUT}, MaxLiveNow)

SpecLive == Init /\ [][NextLive]_vars

(***************************************************************************)
(* The same endpoint word by word: its receive channel holds the 32-bit    *)
(* words of the RX FIFO and the cable, and a call writes words.            *)
(***************************************************************************)
InitWordSession ==
    [InitSession EXCEPT !.words = TRUE,
                        !.link_rx_payload = [i \in 1..LINK_MAX_PAYLOAD |-> 0]]

InitWords ==
    /\ link = [p \in Peers |-> InitWordSession]
    /\ wire = [p \in Peers |-> <<>>]
    /\ now = 0
    /\ obs = [p \in Peers |-> InitObs]

\* The words Link_SendFrame writes for frame f when every wait finds space.
FrameWords(f) ==
    Link_SendFrame(Ctx(InitWordSession, <<>>, 1, <<>>, 0), f.type, f.seq, f.data).tx

\* The words of frame f with a checksum word that is off by one.
BadCrcWords(f) ==
    [FrameWords(f) EXCEPT ![3] = CrcWord((Low16(@) + 1) % 65536)]

FiveBytes == <<1, 2, 3, 4, 5>>

\* The frames whose words a peer puts on the cable.
WordFrames ==
    { Frame(LINK_PKT_HELLO, 0, <<>>),
      Frame(LINK_PKT_RELIABLE, 0, <<7>>),
      Frame(LINK_PKT_UNRELIABLE, 0, FiveBytes) }

\* A header word that declares one byte more than a frame can carry.
LongHeader == HeaderWord(LINK_PKT_UNRELIABLE, 0, LINK_MAX_PAYLOAD + 1)

\* What arrives: whole frames, alone or with the first word of the next
\* frame behind them, frames with a damaged checksum, and a header that
\* declares too long a payload.
WordStreams ==
    {FrameWords(f) : f \in WordFrames}
    \cup {FrameWords(f) \o <<LINK_FRAME_MAGIC>> : f \in WordFrames}
    \cup {BadCrcWords(f) : f \in WordFrames}
    \cup { <<LINK_FRAME_MAGIC, LongHeader>> }

\* Words arrive on an empty channel.
InjectWords(p, streams) ==
    /\ link[p].link_rx_crc_fail_count < MaxCrcFails
    /\ wire[p] = <<>>
    /\ \E ws \in streams : Len(ws) <= MaxWords /\ wire' = [wire EXCEPT ![p] = ws]
    /\ UNCHANGED <<link, now, obs>>

\* One endpoint, word by word, against an arbitrary peer and a noisy cable.
NextWords ==
    \/ Listen(1, FALSE)
    \/ Poll(1, FALSE)
    \/ InjectWords(1, WordStreams)

SpecWords == InitWords /\ [][NextWords]_vars

\* Word by word a pump of the schedule finds the channel empty or holding
\* a full budget of the words rx on their way (or what is left of them).
BudgetEntries(rx, top) ==
    [n : IF rx = <<>> THEN {0} ELSE {0, LINK_POLL_WORD_BUDGET},
     ok : IF top THEN {TRUE} ELSE BOOLEAN]

(***************************************************************************)
(* The endpoint near the wrap of its sequence numbers: a listening         *)
(* endpoint whose session was opened by a HELLO and returned by            *)
(* Link_CheckNewConnections, after WrapStart reliable messages in each     *)
(* direction, all acknowledged and taken from the queue.  Such a session   *)
(* differs from a new one in its two counters only.                        *)
(***************************************************************************)
WrapStart == 254

Handshaken ==
    Session(Link_CheckNewConnections(
              Link_Listen(Ctx(InitSession, <<Frame(LINK_PKT_HELLO, 0, <<>>)>>, MaxWire,
                              <<[n |-> 1, ok |-> TRUE], [n |-> 0, ok |-> TRUE]>>, 0),
                          TRUE)))

InitWrap ==
    /\ link = [p \in Peers |->
                 IF p = 1
                 THEN [Handshaken EXCEPT !.link_tx_rel_seq = WrapStart,
                                         !.link_rx_rel_seq = WrapStart]
                 ELSE InitSession]
    /\ wire = [p \in Peers |-> <<>>]
    /\ now = 0
    /\ obs = [p \in Peers |-> InitObs]

\* The sequence numbers around the wrap.
WrapSeqs == {253, 254, 255, 0, 1}

WrapFrames ==
    {Frame(LINK_PKT_RELIABLE, q, <<7>>) : q \in WrapSeqs}
    \cup {Frame(LINK_PKT_RELIABLE_ACK, q, <<>>) : q \in WrapSeqs}

\* Link_SendMessage until the counter has passed the wrap.
SendWrap(p) ==
    /\ Idle(p)
    /\ link[p].link_tx_rel_seq >= WrapStart
    /\ \E data \in Payloads :
          \E c \in Outcomes(LAMBDA x : Link_SendMessage(x, LinkSock, data),
                            Start(p, FALSE), TRUE) :
             Call(p, FALSE, "SendMessage", c)

NextWrap ==
    \/ Poll(1, FALSE)
    \/ GetMessage(1, FALSE)
    \/ SendWrap(1)
    \/ Inject(1, WrapFrames)

SpecWrap == InitWrap /\ [][NextWrap]_vars

(******************************* properties ********************************)

Reliable(q, d) == Frame(LINK_PKT_RELIABLE, q, d)

Ack(q) == Frame(LINK_PKT_RELIABLE_ACK, q, <<>>)

\* Endpoint p is between two calls with a live Connected session.
Receiving(p) ==
    /\ Idle(p)
    /\ link[p].link_state = LINK_STATE_CONNECTED
    /\ ~link[p].link_transport_dead
    /\ link[p].link_socket # NULL

\* The receive queue of endpoint p can take one more message d.
QueueRoom(p, d) ==
    IntAlign(ReceiveMessageLength(link[p].sock_receiveMessage) + Len(d) + 4)
        <= NET_MAXMESSAGE

Queued(p, d) == Append(link[p].sock_receiveMessage, [msgtype |-> 1, data |-> d])

\* The runs of the receive pump of endpoint 1 over RELIABLE(seq = rx_seq, d)
\* arriving twice in a row.
C2Runs(d) ==
    Runs(LAMBDA x : Link_PumpRx(x, 2),
         StartWith(1, <<Reliable(link[1].link_rx_rel_seq, d),
                        Reliable(link[1].link_rx_rel_seq, d)>>), FALSE)

\* C2 as written: a RELIABLE frame with seq = rx_seq received twice in a
\* row by a Connected session is queued exactly once, rx_seq ends one
\* higher, and two acknowledgments for that seq are transmitted.
C2_Original ==
    Receiving(1) =>
        \A d \in Payloads : \A c \in C2Runs(d) :
            /\ c.delivered = <<d>>
            /\ c.link_rx_rel_seq = Byte(link[1].link_rx_rel_seq + 1)
            /\ c.tx = <<Ack(link[1].link_rx_rel_seq), Ack(link[1].link_rx_rel_seq)>>

\* C2 (amended): a RELIABLE frame with seq = rx_seq = N received twice in a
\* row by a Connected session whose receive queue has room for it is queued
\* exactly once and rx_seq ends at N+1; every frame transmitted in reply is
\* an acknowledgment for N, at most two are transmitted, and exactly two
\* when each frame is handled outside a frame send and TX space is offered.
\* Without room in the queue nothing is queued or acknowledged, rx_seq stays
\* N and the session is marked dead with reason rx_queue_overflow.
C2_Idempotent ==
    Receiving(1) =>
        \A d \in Payloads : \A c \in C2Runs(d) :
            IF QueueRoom(1, d)
            THEN /\ c.delivered = <<d>>
                 /\ c.sock_receiveMessage = Queued(1, d)
                 /\ c.link_rx_rel_seq = Byte(link[1].link_rx_rel_seq + 1)
                 /\ Len(c.tx) <= 2
                 /\ \A i \in 1..Len(c.tx) : c.tx[i] = Ack(link[1].link_rx_rel_seq)
                 /\ Clear(c) => Len(c.tx) = 2
            ELSE /\ c.delivered = <<>>
                 /\ c.sock_receiveMessage = link[1].sock_receiveMessage
                 /\ c.link_rx_rel_seq = link[1].link_rx_rel_seq
                 /\ c.tx = <<>>
                 /\ c.link_transport_dead
                 /\ c.dead_reason = "rx_queue_overflow"

\* A Connected session with rx_seq = 1 from which the frame RELIABLE(1),
\* received twice, is queued once and acknowledged twice.
C2_Witness ==
    /\ Receiving(1)
    /\ link[1].link_rx_rel_seq = 1
    /\ \E c \in C2Runs(<<1, 2, 3>>) :
          /\ Clear(c)
          /\ c.delivered = << <<1, 2, 3>> >>
          /\ c.link_rx_rel_seq = 2
          /\ c.tx = <<Ack(1), Ack(1)>>

\* Distances of a seq from rx_seq that are neither 0 nor -1 (mod 256).
Gaps == {1, 2, 128, 254}

\* The runs of the receive pump of endpoint 1 over one RELIABLE frame whose
\* seq is g ahead of rx_seq.
C3Runs(g, d) ==
    Runs(LAMBDA x : Link_PumpRx(x, 1),
         StartWith(1, <<Reliable(Byte(link[1].link_rx_rel_seq + g), d)>>), FALSE)

\* C3 as written: a RELIABLE frame whose seq is neither rx_seq nor rx_seq-1
\* queues nothing, leaves rx_seq unchanged and is answered with an
\* acknowledgment carrying rx_seq-1 (mod 256).
C3_Original ==
    Receiving(1) =>
        \A g \in Gaps, d \in Payloads : \A c \in C3Runs(g, d) :
            /\ c.delivered = <<>>
            /\ c.link_rx_rel_seq = link[1].link_rx_rel_seq
            /\ c.tx = <<Ack(Byte(link[1].link_rx_rel_seq + 255))>>

\* C3 (amended): a RELIABLE frame whose seq is neither rx_seq nor rx_seq-1,
\* handled by a Connected session outside a frame send, queues nothing and
\* leaves rx_seq and the session state unchanged; the only frame it can
\* transmit is one acknowledgment carrying rx_seq-1 (mod 256), and it
\* transmits it when the transport offers TX space.
C3_Resync ==
    Receiving(1) =>
        \A g \in Gaps, d \in Payloads : \A c \in C3Runs(g, d) :
            /\ c.delivered = <<>>
            /\ c.sock_receiveMessage = link[1].sock_receiveMessage
            /\ c.link_rx_rel_seq = link[1].link_rx_rel_seq
            /\ c.link_state = LINK_STATE_CONNECTED /\ ~c.link_transport_dead
            /\ Len(c.tx) <= 1
            /\ \A i \in 1..Len(c.tx) : c.tx[i] = Ack(Byte(link[1].link_rx_rel_seq + 255))
            /\ Clear(c) => Len(c.tx) = 1

\* A Connected session with rx_seq = 0 that answers RELIABLE(1) with an
\* acknowledgment for 255 and queues nothing.
C3_Witness ==
    /\ Receiving(1)
    /\ link[1].link_rx_rel_seq = 0
    /\ \E c \in C3Runs(1, <<7>>) :
          /\ Clear(c)
          /\ c.delivered = <<>>
          /\ c.link_rx_rel_seq = 0
          /\ c.tx = <<Ack(255)>>

\* C5: in every reachable state a stored pending reliable message
\* (waiting-for-ack) implies state = Connected and transport_dead = false.
C5_PendingOnlyConnected ==
    \A p \in Peers :
        link[p].link_waiting_ack =>
            /\ link[p].link_state = LINK_STATE_CONNECTED
            /\ ~link[p].link_transport_dead

\* The runs of Link_SendMessage of endpoint 1.
SendRuns(sock, data) ==
    Runs(LAMBDA x : Link_SendMessage(x, sock, data), Start(1, FALSE), TRUE)

\* The session as Link_SendMessage leaves it equals the session it found
\* when it decided, and nothing was transmitted since.
Untouched(c) ==
    /\ Len(c.tx) = c.mid.ntx
    /\ [Snap(c) EXCEPT !.ntx = c.mid.ntx] = c.mid

\* C9: a Send that finds a reliable message pending (after its own Poll) is
\* rejected as Busy (0): nothing is stored or transmitted, and the pending
\* seq and payload and tx_seq are unchanged.
C9_Busy ==
    Idle(1) =>
        \A sock \in Handles(1), data \in Payloads : \A c \in SendRuns(sock, data) :
            (c.mid # NoSnap /\ c.mid.link_waiting_ack) =>
                c.ret = 0 /\ Untouched(c)

\* C10: a Send that finds the session not Connected or marked dead (after
\* its own Poll) is rejected as Dead (-1, distinct from Busy, 0), transmits
\* nothing and stores no pending message.
C10_Dead ==
    Idle(1) =>
        \A sock \in Handles(1), data \in Payloads : \A c \in SendRuns(sock, data) :
            (c.mid # NoSnap
             /\ (c.mid.link_state # LINK_STATE_CONNECTED \/ c.mid.link_transport_dead)) =>
                c.ret = -1 /\ Untouched(c)

\* The runs of Link_Poll of endpoint 1.
PollRuns == Runs(LAMBDA x : Link_Poll(x), Start(1, FALSE), TRUE)

\* The retry interval of the pending message of endpoint p has expired.
RetryDue(p) ==
    /\ link[p].link_state = LINK_STATE_CONNECTED
    /\ link[p].link_waiting_ack
    /\ now - link[p].link_pending_sent_at >= LINK_RETRY_INTERVAL

\* Endpoint p has handled no frame for PEER_TIMEOUT, and none is arriving.
Late(p) == now - link[p].link_last_rx_time >= LINK_PEER_TIMEOUT

Silent(p) == wire[p] = <<>>

\* C4: while no acknowledgment arrives, every Poll at which the retry
\* interval of the pending message has expired retransmits the message and
\* counts the retransmission, until MAX_RETRIES (20) retransmissions are
\* counted; the next such Poll takes the session Down with reason
\* max_retries.  The count is the number of retransmitted frames, and two
\* retransmissions are at least RETRY_INTERVAL apart.
C4_RetryBound ==
    /\ link[1].link_waiting_ack => obs[1].retx = link[1].link_pending_retries
    /\ (RetryDue(1) /\ ~link[1].link_transport_dead /\ Silent(1) /\ ~Late(1)) =>
          \A c \in PollRuns :
              IF link[1].link_pending_retries < LINK_MAX_RETRIES
              THEN /\ c.nrel = 1
                   /\ c.link_waiting_ack
                   /\ c.link_pending_retries = link[1].link_pending_retries + 1
                   /\ c.link_pending_sent_at = now
              ELSE /\ c.nrel = 0
                   /\ c.link_transport_dead
                   /\ c.dead_reason = "max_retries"
                   /\ c.link_state = LINK_STATE_DOWN

\* C6 as written: a Poll of a Handshake or Connected session at which
\* now - last_rx_time >= PEER_TIMEOUT marks the session dead with reason
\* peer_timeout and takes it Down.
C6_Original ==
    (link[1].link_state \in {LINK_STATE_HANDSHAKE, LINK_STATE_CONNECTED}
     /\ Late(1) /\ Silent(1)) =>
        \A c \in PollRuns :
            /\ c.link_transport_dead
            /\ c.dead_reason = "peer_timeout"
            /\ c.link_state = LINK_STATE_DOWN

\* C6 (amended): a Poll of a Handshake or Connected session at which
\* now - last_rx_time >= PEER_TIMEOUT and no frame arrives marks the session
\* dead and takes it Down.  The reason is peer_timeout for a Connected
\* session, unless its pending message has had MAX_RETRIES retransmissions
\* and its retry interval has expired (the reason is then max_retries); for
\* a Handshake session the reason is handshake_timeout.
C6_PeerTimeout ==
    (link[1].link_state \in {LINK_STATE_HANDSHAKE, LINK_STATE_CONNECTED}
     /\ Late(1) /\ Silent(1)) =>
        \A c \in PollRuns :
            /\ c.link_transport_dead
            /\ c.link_state = LINK_STATE_DOWN
            /\ c.dead_reason =
                  IF link[1].link_state = LINK_STATE_HANDSHAKE THEN "handshake_timeout"
                  ELSE IF RetryDue(1) /\ link[1].link_pending_retries >= LINK_MAX_RETRIES
                       THEN "max_retries"
                       ELSE "peer_timeout"

\* A Connected session, silent for PEER_TIMEOUT, whose Poll marks it dead
\* with reason peer_timeout.
C6_Witness ==
    /\ link[1].link_state = LINK_STATE_CONNECTED
    /\ Late(1) /\ Silent(1)
    /\ \E c \in PollRuns :
          c.link_transport_dead /\ c.dead_reason = "peer_timeout"
             /\ c.link_state = LINK_STATE_DOWN

\* The other two cases of C6: a Handshake session, and a Connected session
\* whose pending message has had MAX_RETRIES retransmissions.
C6_HandshakeCase == link[1].link_state = LINK_STATE_HANDSHAKE /\ Late(1) /\ Silent(1)

C6_MaxRetriesCase ==
    /\ RetryDue(1) /\ Late(1) /\ Silent(1)
    /\ link[1].link_pending_retries >= LINK_MAX_RETRIES

\* The frames in the receive channel of endpoint p do no harm: none is a
\* RESET, and the receive queue has room for all the payloads they carry.
Harmless(p) ==
    /\ \A i \in 1..Len(wire[p]) : wire[p][i].type # LINK_PKT_RESET
    /\ ReceiveMessageLength(
          link[p].sock_receiveMessage
             \o SelectSeq(wire[p], LAMBDA f : f.type \in {LINK_PKT_RELIABLE,
                                                         LINK_PKT_UNRELIABLE}))
          <= NET_MAXMESSAGE

\* A Connected session with no pending message whose last frame was
\* handled less than PEER_TIMEOUT ago.
C7Pre == Receiving(1) /\ ~link[1].link_waiting_ack /\ ~Late(1)

\* C7 as written: a Connected session with no pending message that keeps
\* receiving valid frames of any type at intervals shorter than
\* PEER_TIMEOUT stays Connected and is not marked dead by a Poll.
C7_Original ==
    C7Pre =>
        \A c \in PollRuns :
            ~c.link_transport_dead /\ c.link_state = LINK_STATE_CONNECTED

\* C7 (amended): a Poll of a Connected session with no pending message
\* whose last frame was handled less than PEER_TIMEOUT ago leaves it
\* Connected, unless the Poll handles a RESET frame (dead, reset_pkt) or a
\* RELIABLE frame that the receive queue cannot hold (dead,
\* rx_queue_overflow): frames of the other types, and data frames that fit
\* the queue, never get it marked dead.
C7_Alive ==
    C7Pre =>
        \A c \in PollRuns :
            /\ Harmless(1) =>
                  ~c.link_transport_dead /\ c.link_state = LINK_STATE_CONNECTED
            /\ c.link_transport_dead =>
                  c.dead_reason \in {"reset_pkt", "rx_queue_overflow"}
            /\ ~c.link_transport_dead => c.link_state = LINK_STATE_CONNECTED

\* A session that was connected a PEER_TIMEOUT ago or more, still Connected
\* because frames kept arriving, with one more frame for its next Poll.
C7_Witness ==
    /\ C7Pre
    /\ now >= LINK_PEER_TIMEOUT
    /\ link[1].link_last_rx_time > 0
    /\ wire[1] = <<Frame(LINK_PKT_KEEPALIVE, 0, <<>>)>>
    /\ \E c \in PollRuns :
          /\ c.link_state = LINK_STATE_CONNECTED /\ ~c.link_transport_dead
          /\ c.link_last_rx_time = now

IsPrefix(a, b) == Len(a) <= Len(b) /\ a = SubSeq(b, 1, Len(a))

Hello == Frame(LINK_PKT_HELLO, 0, <<>>)

HelloAck == Frame(LINK_PKT_HELLO_ACK, 0, <<>>)

ThreeBytes == <<1, 2, 3>>

\* A run of a polling call of endpoint p whose pump took the frames of
\* the receive channel, and in whose sends the transport offered TX space
\* and no frame arrived.
Taken(p, c) ==
    /\ c.plan[1].n = Len(wire[p])
    /\ \A i \in 2..Len(c.plan) : c.plan[i].ok /\ c.plan[i].n = 0

\* C8: on a loss-free link, Connect sends HELLO and enters Handshake; the
\* listening responder that receives it goes Down -> Connected and replies
\* HELLO-ACK; the initiator that receives that goes Handshake -> Connected;
\* its Send of 3 bytes transmits RELIABLE seq 0; the responder queues
\* exactly those bytes and replies RELIABLE-ACK(0); the initiator that
\* receives it has no pending message and CanSend is true.
C8_EndToEnd ==
    /\ (Idle(1) /\ link[1].link_state = LINK_STATE_DOWN
        /\ NET_NewQSocket(link[1]) # NULL /\ wire[2] = <<>>) =>
          \A c \in Runs(LAMBDA x : Link_Connect(x, 0), Start(1, TRUE), FALSE) :
              Clear(c) => c.tx = <<Hello>> /\ c.link_state = LINK_STATE_HANDSHAKE
    /\ (link[2].link_listening /\ link[2].link_state = LINK_STATE_DOWN
        /\ wire[2] = <<Hello>> /\ wire[1] = <<>>) =>
          \A c \in Runs(LAMBDA x : Link_Poll(x), Start(2, TRUE), TRUE) :
              Taken(2, c) =>
                  /\ c.link_state = LINK_STATE_CONNECTED /\ ~c.link_transport_dead
                  /\ c.tx = <<HelloAck>>
    /\ (link[1].link_state = LINK_STATE_HANDSHAKE /\ wire[1] = <<HelloAck>>) =>
          \A c \in Runs(LAMBDA x : Link_ConnectPoll(x), Start(1, TRUE), TRUE) :
              Taken(1, c) =>
                  /\ c.link_state = LINK_STATE_CONNECTED /\ ~c.link_transport_dead
                  /\ c.ret = c.link_socket /\ c.ret # NULL
    /\ (Receiving(1) /\ link[1].held /\ ~link[1].link_waiting_ack
        /\ link[1].link_tx_rel_seq = 0 /\ wire[1] = <<>> /\ wire[2] = <<>>) =>
          \A c \in Runs(LAMBDA x : Link_SendMessage(x, LinkSock, ThreeBytes),
                        Start(1, TRUE), TRUE) :
              Taken(1, c) =>
                  /\ c.ret = 1
                  /\ c.tx = <<Reliable(0, ThreeBytes)>>
                  /\ c.link_waiting_ack /\ c.link_pending_seq = 0
    /\ (Receiving(2) /\ link[2].link_rx_rel_seq = 0
        /\ link[2].sock_receiveMessage = <<>>
        /\ wire[2] = <<Reliable(0, ThreeBytes)>> /\ wire[1] = <<>>) =>
          \A c \in Runs(LAMBDA x : Link_Poll(x), Start(2, TRUE), TRUE) :
              Taken(2, c) =>
                  /\ c.delivered = <<ThreeBytes>>
                  /\ c.sock_receiveMessage = <<[msgtype |-> 1, data |-> ThreeBytes]>>
                  /\ c.tx = <<Ack(0)>>
    /\ (Receiving(1) /\ link[1].held /\ link[1].link_waiting_ack
        /\ link[1].link_pending_seq = 0 /\ wire[1] = <<Ack(0)>>) =>
          \A c \in Runs(LAMBDA x : Link_CanSendMessage(x, LinkSock),
                        Start(1, TRUE), TRUE) :
              Taken(1, c) =>
                  /\ ~c.link_waiting_ack /\ c.link_pending_len = 0
                  /\ c.ret = TRUE

\* The end of the scenario, reached without a retransmission: the
\* initiator's 3 bytes are queued at the responder, the initiator has no
\* pending message and its CanSend returns true.
C8_Witness ==
    /\ now = 0
    /\ Receiving(1) /\ link[1].held /\ ~link[1].link_waiting_ack
    /\ obs[1].accepted = <<ThreeBytes>>
    /\ obs[2].delivered = <<ThreeBytes>>
    /\ link[2].sock_receiveMessage = <<[msgtype |-> 1, data |-> ThreeBytes]>>
    /\ \E c \in Runs(LAMBDA x : Link_CanSendMessage(x, LinkSock),
                     Start(1, TRUE), TRUE) : c.ret = TRUE

Reset == Frame(LINK_PKT_RESET, 0, <<>>)

\* The contexts a Link_SendMessage of endpoint 1 is run from: the channel
\* as it is, and a RESET followed by a HELLO on their way.
SendStarts == {Start(1, FALSE), StartWith(1, <<Reset, Hello>>)}

\* The frames a Link_SendMessage run wrote after its Link_Poll.
SentAfterPoll(c) == SubSeq(c.tx, c.mid.ntx + 1, Len(c.tx))

\* The runs of the receive pump of endpoint 1 over the acknowledgment of
\* its pending message.
AckRuns ==
    Runs(LAMBDA x : Link_PumpRx(x, 1),
         StartWith(1, <<Ack(link[1].link_pending_seq)>>), FALSE)

ReliableState(s) ==
    [ link_waiting_ack |-> s.link_waiting_ack,
      link_pending_seq |-> s.link_pending_seq,
      link_pending_data |-> SubSeq(s.link_pending_data, 1, s.link_pending_len),
      link_pending_retries |-> s.link_pending_retries,
      link_pending_sent_at |-> s.link_pending_sent_at,
      link_tx_rel_seq |-> s.link_tx_rel_seq,
      sock_canSend |-> s.sock_canSend ]

\* What Link_CanSendMessage answers for the link's socket on state s,
\* after its Link_Poll.
CanSend(s) == Link_CanSendMessage_Polled(s @@ [ret |-> FALSE]).ret

\* The runs of the receive pump of endpoint 1 over one acknowledgment.
C12Runs(q) == Runs(LAMBDA x : Link_PumpRx(x, 1), StartWith(1, <<Ack(q)>>), FALSE)

\* C12: a RELIABLE_ACK received when no message is pending, or whose seq
\* differs from the pending seq, changes nothing in the reliable-delivery
\* state (pending message, retry count, tx_seq, CanSend); one whose seq
\* equals the pending seq clears the pending message and makes CanSend()
\* true.
C12_AckEffect ==
    (Idle(1) /\ link[1].link_socket # NULL) =>
        \A q \in Seqs \cup {link[1].link_pending_seq} : \A c \in C12Runs(q) :
            IF link[1].link_waiting_ack /\ q = link[1].link_pending_seq
            THEN /\ ~c.link_waiting_ack /\ c.link_pending_len = 0
                 /\ CanSend(c) = TRUE
            ELSE /\ ReliableState(c) = ReliableState(link[1])
                 /\ CanSend(c) = CanSend(link[1])

\* The runs of Link_CanSendMessage of endpoint 1 on the link's socket.
CanSendRuns ==
    Runs(LAMBDA x : Link_CanSendMessage(x, LinkSock), Start(1, FALSE), TRUE)

\* C13: a session marked dead by a fatal condition (receive-queue overflow,
\* max retries, RESET, peer timeout) is Down with no pending reliable
\* message, and as long as it is dead (no new handshake, no Close) every
\* CanSend returns false and every Send returns Dead (-1).
C13_Fatal ==
    /\ \A p \in Peers :
          link[p].link_transport_dead =>
              /\ link[p].link_state = LINK_STATE_DOWN
              /\ ~link[p].link_waiting_ack
              /\ link[p].link_pending_len = 0
    /\ (Idle(1) /\ link[1].held) =>
          /\ \A data \in Payloads : \A c \in SendRuns(LinkSock, data) :
                c.mid.link_transport_dead => c.ret = -1 /\ Untouched(c)
          /\ \A c \in CanSendRuns :
                c.link_transport_dead => c.ret = FALSE

\* The runs of Link_Close of endpoint 1.
CloseRuns(sock) == Runs(LAMBDA x : Link_Close(x, sock), Start(1, FALSE), FALSE)

\* C14: Close always leaves the session Down with no pending message and
\* the sequence counters reset, whether or not the RESET frame could be
\* transmitted; a RESET is attempted only if the session was Connected
\* when Close was called (and is then transmitted when the transport
\* offers TX space).
C14_CloseResets ==
    Idle(1) =>
        \A sock \in Handles(1) : \A c \in CloseRuns(sock) :
            /\ c.link_state = LINK_STATE_DOWN
            /\ ~c.link_transport_dead
            /\ ~c.link_waiting_ack /\ c.link_pending_len = 0
            /\ c.link_pending_retries = 0
            /\ c.link_tx_rel_seq = 0 /\ c.link_rx_rel_seq = 0
            /\ IF link[1].link_state = LINK_STATE_CONNECTED
               THEN c.tx \in {<<>>, <<Reset>>} /\ (Clear(c) => c.tx = <<Reset>>)
               ELSE c.tx = <<>> /\ c.sched = c.plan

\* A Connected session with a pending message whose Close cannot transmit
\* the RESET and still resets the session, and whose Close with TX space
\* transmits it.
C14_Witness ==
    /\ Receiving(1) /\ link[1].held
    /\ link[1].link_waiting_ack /\ link[1].link_tx_rel_seq = 1
    /\ \E c \in CloseRuns(LinkSock) :
          c.tx = <<>> /\ c.link_state = LINK_STATE_DOWN /\ c.link_tx_rel_seq = 0
    /\ \E c \in CloseRuns(LinkSock) :
          c.tx = <<Reset>> /\ c.link_state = LINK_STATE_DOWN /\ ~c.link_waiting_ack

\* The runs of Link_Connect of endpoint 1 up to its polling loop; lag is
\* the time its HELLO send takes.
ConnectRuns(lag) ==
    Runs(LAMBDA x : Link_Connect(x, lag), Start(1, FALSE), FALSE)

Lags == {0, LINK_RETRY_INTERVAL}

\* Link_Connect has started a handshake and entered its polling loop.
Started(c) == c.pc = "connecting"

\* C15 as written: Connect starts a handshake only when the session is
\* Down; called in Handshake or Connected it fails and changes nothing;
\* when it starts it sets tx_seq = rx_seq = 0, clears the pending message,
\* sets role Initiator and state Handshake, records the handshake start
\* time and transmits a HELLO frame.
C15_Original ==
    Idle(1) =>
        \A lag \in Lags : \A c \in ConnectRuns(lag) :
            IF link[1].link_state # LINK_STATE_DOWN
            THEN c.ret = NULL /\ Session(c) = link[1] /\ c.tx = <<>>
            ELSE Started(c) =>
                    /\ c.link_tx_rel_seq = 0 /\ c.link_rx_rel_seq = 0
                    /\ ~c.link_waiting_ack /\ c.link_pending_len = 0
                    /\ ~c.link_server_side
                    /\ c.link_state = LINK_STATE_HANDSHAKE
                    /\ c.link_handshake_start = now
                    /\ c.tx = <<Hello>>

\* C15 (amended): Connect starts a handshake only when the session is
\* Down; called in Handshake or Connected it fails and changes nothing.
\* When it starts it resets the session (tx_seq = 0, no pending message),
\* records the handshake start time and attempts one HELLO frame, the only
\* frame it can write.  When the transport offers TX space and no frame
\* arrives during that send, the HELLO is transmitted and the session is an
\* Initiator in state Handshake with rx_seq = 0.
C15_ConnectStarts ==
    Idle(1) =>
        \A lag \in Lags : \A c \in ConnectRuns(lag) :
            IF link[1].link_state # LINK_STATE_DOWN
            THEN c.ret = NULL /\ Session(c) = link[1] /\ c.tx = <<>>
            ELSE Started(c) =>
                    /\ c.link_tx_rel_seq = 0
                    /\ ~c.link_waiting_ack /\ c.link_pending_len = 0
                    /\ c.link_pending_retries = 0
                    /\ c.link_handshake_start = now
                    /\ c.tx \in {<<>>, <<Hello>>}
                    /\ Clear(c) =>
                          /\ c.link_rx_rel_seq = 0
                          /\ ~c.link_server_side
                          /\ c.link_state = LINK_STATE_HANDSHAKE
                          /\ ~c.link_transport_dead
                          /\ c.tx = <<Hello>>

\* A listening endpoint that is Down starts a handshake and transmits
\* HELLO.
C15_Witness ==
    /\ Idle(1) /\ link[1].link_state = LINK_STATE_DOWN
    /\ link[1].link_listening
    /\ \E c \in ConnectRuns(0) :
          /\ Started(c) /\ Clear(c)
          /\ c.link_state = LINK_STATE_HANDSHAKE /\ c.tx = <<Hello>>

\* The runs of one turn of Link_Connect's polling loop, and of its end
\* once the deadline has passed.
ConnectPollRuns == Runs(LAMBDA x : Link_ConnectPoll(x), Start(1, FALSE), TRUE)

ConnectTimeoutRuns == Runs(LAMBDA x : Link_ConnectTimeout(x), Start(1, FALSE), FALSE)

\* Link_Connect is in its polling loop, no HELLO-ACK has taken the session
\* to Connected and none is on its way.
AwaitingAck ==
    /\ link[1].pc = "connecting"
    /\ link[1].link_state # LINK_STATE_CONNECTED
    /\ \A i \in 1..Len(wire[1]) : wire[1][i] # HelloAck

\* C16: while no HELLO-ACK is processed, no turn of Link_Connect's polling
\* loop returns a session, and once CONNECT_TIMEOUT has passed the attempt
\* fails: Link_Connect returns no session and the session is Down with no
\* pending message.
C16_ConnectFails ==
    AwaitingAck =>
        /\ now < link[1].deadline =>
              \A c \in ConnectPollRuns : c.ret = NULL /\ Started(c)
        /\ now >= link[1].deadline =>
              \A c \in ConnectTimeoutRuns :
                  /\ c.ret = NULL /\ c.link_socket = NULL /\ ~Started(c)
                  /\ c.link_state = LINK_STATE_DOWN
                  /\ ~c.link_waiting_ack /\ c.link_pending_len = 0

\* The runs of the receive pump of endpoint 1 over one HELLO frame.
HelloRuns == Runs(LAMBDA x : Link_PumpRx(x, 1), StartWith(1, <<Hello>>), FALSE)

\* C17: a listening session in state Down that receives a HELLO becomes
\* Connected with tx_seq = rx_seq = 0, no pending reliable message,
\* transport_dead = false and an empty receive queue, and transmits
\* HELLO-ACK (here: whenever the transport offers TX space).
C17_HelloAccept ==
    (Idle(1) /\ link[1].link_listening /\ link[1].link_state = LINK_STATE_DOWN) =>
        \A c \in HelloRuns :
            /\ c.link_state = LINK_STATE_CONNECTED
            /\ c.link_tx_rel_seq = 0 /\ c.link_rx_rel_seq = 0
            /\ ~c.link_waiting_ack /\ c.link_pending_len = 0
            /\ ~c.link_transport_dead
            /\ c.sock_receiveMessage = <<>>
            /\ Clear(c) => c.tx = <<HelloAck>>

\* What a HELLO must leave alone in a Connected session.
SessionState(s) ==
    [ link_state |-> s.link_state,
      link_transport_dead |-> s.link_transport_dead,
      link_server_side |-> s.link_server_side,
      link_rx_rel_seq |-> s.link_rx_rel_seq,
      reliable |-> ReliableState(s),
      sock_receiveMessage |-> s.sock_receiveMessage ]

\* C18 as written: a listening session that is already Connected and
\* receives HELLO retransmits HELLO-ACK and changes nothing else: state,
\* tx_seq, rx_seq, the pending message and the receive queue are unchanged.
C18_Original ==
    (Receiving(1) /\ link[1].link_listening) =>
        \A c \in HelloRuns :
            c.tx = <<HelloAck>> /\ SessionState(c) = SessionState(link[1])

\* C18 (amended): a listening session that is already Connected and
\* receives HELLO outside a frame send changes nothing in its state,
\* tx_seq, rx_seq, pending message and receive queue; the only frame it
\* can transmit is one HELLO-ACK, and it transmits it when the transport
\* offers TX space.
C18_HelloAgain ==
    (Receiving(1) /\ link[1].link_listening) =>
        \A c \in HelloRuns :
            /\ SessionState(c) = SessionState(link[1])
            /\ c.tx \in {<<>>, <<HelloAck>>}
            /\ Clear(c) => c.tx = <<HelloAck>>

\* A listening Connected session with a pending message, a received
\* message in its queue and rx_seq = 1, which answers HELLO with HELLO-ACK.
C18_Witness ==
    /\ Receiving(1) /\ link[1].link_listening
    /\ link[1].link_waiting_ack /\ link[1].link_rx_rel_seq = 1
    /\ link[1].sock_receiveMessage # <<>>
    /\ \E c \in HelloRuns :
          Clear(c) /\ c.tx = <<HelloAck>> /\ SessionState(c) = SessionState(link[1])

\* The runs of the receive pump of endpoint 1 over one HELLO-ACK frame.
HelloAckRuns == Runs(LAMBDA x : Link_PumpRx(x, 1), StartWith(1, <<HelloAck>>), FALSE)

\* Endpoint p is an Initiator in state Handshake.
Initiating(p) ==
    /\ link[p].link_state = LINK_STATE_HANDSHAKE
    /\ ~link[p].link_server_side
    /\ link[p].link_socket # NULL

Quiet == StartWith(1, <<>>)

\* The runs of the receive pump of endpoint 1 over the single frame f.
FrameRuns(f) == Runs(LAMBDA x : Link_PumpRx(x, 1), StartWith(1, <<f>>), FALSE)

\* The change of session state a run ending in c has made.
Step(c) == <<link[1].link_state, c.link_state>>

Changed(c) == c.link_state # link[1].link_state

\* The specified transitions a received frame f can make.
ByFrame(f, c) ==
    \/ f.type = LINK_PKT_HELLO_ACK
          /\ Step(c) = <<LINK_STATE_HANDSHAKE, LINK_STATE_CONNECTED>>
    \/ f.type = LINK_PKT_HELLO /\ link[1].link_listening
          /\ Step(c) = <<LINK_STATE_DOWN, LINK_STATE_CONNECTED>>
    \/ f.type = LINK_PKT_RESET
          /\ Step(c) = <<LINK_STATE_CONNECTED, LINK_STATE_DOWN>>
    \/ f.type = LINK_PKT_RELIABLE /\ c.dead_reason = "rx_queue_overflow"
          /\ Step(c) = <<LINK_STATE_CONNECTED, LINK_STATE_DOWN>>

\* The specified transitions the timers can make.
ByTimers(c) ==
    \/ c.dead_reason = "handshake_timeout"
          /\ Step(c) = <<LINK_STATE_HANDSHAKE, LINK_STATE_DOWN>>
    \/ c.dead_reason \in {"peer_timeout", "max_retries"}
          /\ Step(c) = <<LINK_STATE_CONNECTED, LINK_STATE_DOWN>>

\* The specified transitions of Close.
ByClose(c) ==
    Step(c) \in {<<LINK_STATE_HANDSHAKE, LINK_STATE_DOWN>>,
                 <<LINK_STATE_CONNECTED, LINK_STATE_DOWN>>}

\* Every received frame changes the state by a specified transition only.
C20_Frames ==
    \A f \in Frames : \A c \in FrameRuns(f) : Changed(c) => ByFrame(f, c)

\* Connect changes the state from Down to Handshake only.
C20_Connect ==
    Idle(1) =>
        \A lag \in Lags :
            \A c \in Runs(LAMBDA x : Link_Connect(x, lag), Quiet, FALSE) :
                Changed(c) => Step(c) = <<LINK_STATE_DOWN, LINK_STATE_HANDSHAKE>>

\* Close, and the Close at the deadline of Connect, take the state to Down.
C20_Close ==
    /\ Idle(1) =>
          \A sock \in Handles(1) :
              \A c \in Runs(LAMBDA x : Link_Close(x, sock), Quiet, FALSE) :
                  Changed(c) => ByClose(c)
    /\ (link[1].pc = "connecting" /\ now >= link[1].deadline) =>
          \A c \in Runs(LAMBDA x : Link_ConnectTimeout(x), Quiet, FALSE) :
              Changed(c) => ByClose(c)

\* The calls that poll change the state through the timers only, and
\* Listen changes no state.
C20_Calls ==
    /\ \A c \in Runs(LAMBDA x : Link_Poll(x), Quiet, TRUE) :
          Changed(c) => ByTimers(c)
    /\ \A c \in Runs(LAMBDA x : Link_CheckNewConnections(x), Quiet, TRUE) :
          Changed(c) => ByTimers(c)
    /\ \A sock \in Handles(1) :
          /\ \A c \in Runs(LAMBDA x : Link_GetMessage(x, sock), Quiet, TRUE) :
                Changed(c) => ByTimers(c)
          /\ \A c \in Runs(LAMBDA x : Link_CanSendMessage(x, sock), Quiet, TRUE) :
                Changed(c) => ByTimers(c)
    /\ \A sock \in Handles(1), data \in Payloads :
          /\ \A c \in Runs(LAMBDA x : Link_SendMessage(x, sock, data), Quiet, TRUE) :
                Changed(c) => ByTimers(c)
          /\ \A c \in Runs(LAMBDA x : Link_SendUnreliableMessage(x, sock, data),
                                Quiet, TRUE) :
                Changed(c) => ByTimers(c)
    /\ \A b \in BOOLEAN : ~Changed(Link_Listen(Quiet, b))

\* C20: every change of session state is one of the specified transitions:
\* Down to Handshake by Connect; Handshake to Connected by a HELLO-ACK;
\* Handshake to Down by timeout or Close; Down to Connected by a HELLO
\* received while listening; Connected to Down by peer timeout, max
\* retries, receive-queue overflow, a received RESET or Close.  No other
\* event changes the state, and a Responder's state moves on Listen never.
C20_Transitions ==
    /\ C20_Frames
    /\ C20_Connect
    /\ C20_Close
    /\ C20_Calls

\* ceil(len / 4), the payload words of a frame.
PayloadWords(len) == (len + 3) \div 4

\* The bytes that the payload words of seg carry for the declared length.
SegmentBytes(seg) ==
    [i \in 1..Low16(seg[2]) |-> seg[4 + ((i - 1) \div 4)][1 + ((i - 1) % 4)]]

\* seg is what one frame send writes: the magic word, a header word and a
\* checksum word, then payload words, as many as the header declares
\* unless the send gave up; a complete frame carries its checksum.
FrameStart(seg) ==
    /\ Len(seg) >= 3
    /\ seg[1] = LINK_FRAME_MAGIC
    /\ Low16(seg[2]) <= LINK_MAX_PAYLOAD
    /\ Len(seg) - 3 <= PayloadWords(Low16(seg[2]))
    /\ seg[3][3] = 0 /\ seg[3][4] = 0
    /\ Len(seg) - 3 = PayloadWords(Low16(seg[2])) =>
          /\ Low16(seg[3]) = Link_FrameCRC(seg[2][4], seg[2][3], SegmentBytes(seg))
          /\ \A j \in 1..(Len(seg) - 3) :
                seg[3 + j] = PayloadWord(SegmentBytes(seg), 4 * (j - 1))

\* ws is a sequence of frame sends, none started before the last ended.
RECURSIVE Serial(_)
Serial(ws) ==
    \/ ws = <<>>
    \/ \E k \in 3..Len(ws) :
          FrameStart(SubSeq(ws, 1, k)) /\ Serial(SubSeq(ws, k + 1, Len(ws)))

\* The frames whose handlers send a reply.
Hello3 == FrameWords(Frame(LINK_PKT_HELLO, 0, <<>>))

Reliable4 == FrameWords(Frame(LINK_PKT_RELIABLE, 0, <<7>>))

\* Word by word a schedule entry lets none or all of the m words that are
\* still on their way arrive.
WordEntries(m, top) == [n : {0, m}, ok : IF top THEN {TRUE} ELSE BOOLEAN]

RECURSIVE WordMore(_, _, _, _)
WordMore(H(_), c0, runs, k) ==
    IF k = 0 THEN runs
    ELSE WordMore(H, c0,
           Finished(runs)
           \cup UNION {{H(Planned(c0, Append(c.plan, e))) :
                           e \in WordEntries(Len(c0.rx) - PlanN(c.plan), FALSE)} :
                       c \in {r \in runs : r.starved}},
           k - 1)

\* The runs of handler H from context c0 under the schedules of up to
\* k + 1 such entries, drawn as far as the call reads them.
WordRuns(H(_), c0, top, k) ==
    WordMore(H, c0, {H(Planned(c0, <<e>>)) : e \in WordEntries(Len(c0.rx), top)}, k)

\* The runs of Link_SendMessage of endpoint 1, word by word, while the
\* words ws arrive behind those on their way; a schedule has up to five
\* entries: the pump of Link_Poll and the spins of two waits.
WordSendRuns(ws, data) ==
    WordRuns(LAMBDA x : Link_SendMessage(x, LinkSock, data),
             StartWith(1, wire[1] \o ws), TRUE, 4)

\* Endpoint p has a Connected session and its parser is between frames.
WordConnected(p) ==
    /\ link[p].link_state = LINK_STATE_CONNECTED
    /\ link[p].link_socket = LinkSock
    /\ link[p].link_rx_state = LINK_RX_WAIT_MAGIC

\* C21: a frame send requested while another is in progress (through the
\* wait for space, the receive pump and a frame handler) fails at once and
\* writes no word: after its Link_Poll, Link_SendMessage writes words of
\* its own frame only, and the TX word stream of the call is a sequence of
\* frame sends whose words are not interleaved.
C21_NoInterleave ==
    (WordConnected(1) /\ Len(wire[1]) <= 2) =>
        \A ws \in {Hello3, Reliable4} :
            \A c \in WordSendRuns(ws, FiveBytes) :
                /\ Serial(c.tx)
                /\ c.mid.ntx >= 0 =>
                      IsPrefix(SentAfterPoll(c),
                               FrameWords(Frame(LINK_PKT_RELIABLE,
                                                c.mid.link_tx_rel_seq, FiveBytes)))

\* A listening Connected session sends a message while a HELLO arrives
\* after the header words are written: the HELLO is handled inside the wait
\* for the payload word, its HELLO-ACK is refused, and the frame is whole.
C21_Witness ==
    /\ WordConnected(1) /\ link[1].link_listening
    /\ wire[1] = <<>>
    /\ \E c \in WordSendRuns(Hello3, FiveBytes) :
          /\ c.handled = <<Frame(LINK_PKT_HELLO, 0, <<>>)>>
          /\ c.plan[1].n = 0 /\ c.plan[2].n = 0 /\ Len(c.plan) >= 3 /\ c.plan[3].n = 3
          /\ c.tx = FrameWords(Frame(LINK_PKT_RELIABLE, link[1].link_tx_rel_seq, FiveBytes))

\* The words a peer floods the channel with: two frames and the start of a
\* third.
Flood == Hello3 \o Reliable4 \o <<LINK_FRAME_MAGIC>>

RECURSIVE BudgetMore(_, _, _, _)
BudgetMore(H(_), c0, runs, k) ==
    IF k = 0 THEN runs
    ELSE BudgetMore(H, c0,
           Finished(runs)
           \cup UNION {{H(Planned(c0, Append(c.plan, e))) :
                           e \in BudgetEntries(c.rx, FALSE)} :
                       c \in {r \in runs : r.starved}},
           k - 1)

\* The runs of handler H from context c0 under the schedules of up to
\* k + 1 such entries, drawn as far as the call reads them.
BudgetRuns(H(_), c0, top, k) ==
    BudgetMore(H, c0, {H(Planned(c0, <<e>>)) : e \in BudgetEntries(c0.rx, top)}, k)

\* The context of endpoint 1 with the flood behind the words on their way
\* (the schedules in which no word arrives are those of a quiet channel).
FloodStarts == {StartWith(1, wire[1] \o Flood)}

\* The steps of one wait: its spins and the words their pumps consume.
WaitSteps == LINK_TX_SPINS * (1 + LINK_POLL_WORD_BUDGET)

\* The steps of one frame send: a wait for the header words, and a wait
\* and a write for every payload word.
SendSteps(len) == (1 + PayloadWords(len)) * WaitSteps + PayloadWords(len)

\* The steps of Link_Poll: the words of its pump, each with the reply a
\* handler sends, then the retransmission and the keepalive of the timers.
PollSteps ==
    LINK_POLL_WORD_BUDGET * (1 + WaitSteps) + SendSteps(LINK_MAX_PAYLOAD) + WaitSteps

\* No entry of the schedule the run drew offered TX space.
NoSpace(c) == \A i \in 1..Len(c.plan) : ~c.plan[i].ok

\* C22: Poll, Send, SendUnreliable and Close return after a bounded number
\* of steps (spins of a wait, words consumed, payload words written)
\* whatever the transport does: a wait that is never offered TX space gives
\* up after LINK_TX_SPINS spins and the send it belongs to writes nothing,
\* a pump consumes at most LINK_POLL_WORD_BUDGET words, and a send nested in
\* a handler costs no step.  The calls are run from every session state
\* reached with an empty channel, with a flood of words behind it.
C22_Bounded ==
    wire[1] = <<>> => \A c0 \in FloodStarts :
        /\ \A c \in BudgetRuns(LAMBDA x : Link_Poll(x), c0, TRUE, 2 * LINK_TX_SPINS) :
              c.steps <= PollSteps
        /\ \A c \in BudgetRuns(LAMBDA x : Link_SendMessage(x, LinkSock, FiveBytes),
                               c0, TRUE, 2 * LINK_TX_SPINS) :
              /\ c.steps <= PollSteps + SendSteps(Len(FiveBytes))
              /\ c.ret = 1 =>
                    SentAfterPoll(c) =
                       FrameWords(Frame(LINK_PKT_RELIABLE, c.mid.link_tx_rel_seq, FiveBytes))
        /\ \A c \in BudgetRuns(LAMBDA x : Link_SendUnreliableMessage(x, LinkSock, FiveBytes),
                               c0, TRUE, 2 * LINK_TX_SPINS) :
              c.steps <= PollSteps + SendSteps(Len(FiveBytes))
        /\ \A c \in BudgetRuns(LAMBDA x : Link_Close(x, LinkSock), c0, FALSE, LINK_TX_SPINS) :
              /\ c.steps <= WaitSteps
              /\ NoSpace(c) =>
                    /\ c.tx = <<>>
                    /\ Len(c.plan) <= LINK_TX_SPINS

\* Link_Close of a Connected session under a flood and a transport that
\* never offers TX space: every spin pumps a full budget of words, the wait
\* gives up after LINK_TX_SPINS spins and the RESET frame is not written.
C22_Witness ==
    /\ link[1].link_state = LINK_STATE_CONNECTED
    /\ wire[1] = <<>>
    /\ \E c \in BudgetRuns(LAMBDA x : Link_Close(x, LinkSock),
                           StartWith(1, wire[1] \o Flood), FALSE, LINK_TX_SPINS) :
          /\ NoSpace(c) /\ ~c.starved
          /\ Len(c.plan) = LINK_TX_SPINS
          /\ c.steps = WaitSteps
          /\ c.tx = <<>>

\* The frame types of the protocol.
FrameTypes ==
    { LINK_PKT_HELLO, LINK_PKT_HELLO_ACK, LINK_PKT_RELIABLE, LINK_PKT_RELIABLE_ACK,
      LINK_PKT_UNRELIABLE, LINK_PKT_KEEPALIVE, LINK_PKT_RESET }

\* The parser of endpoint 1 fed the words ws one by one, whatever their
\* number (the pumps of as many calls as it takes).
RECURSIVE Feed(_)
Feed(c) == IF c.rx = <<>> THEN c ELSE Feed(Link_ConsumeRxWord(c))

Fed(ws) == Feed(StartWith(1, ws))

\* The words of frame f with the first payload byte changed after the
\* checksum was computed.
BadPayloadWords(f) ==
    IF f.data = <<>> THEN BadCrcWords(f)
    ELSE [FrameWords(f) EXCEPT ![4] = [@ EXCEPT ![1] = (@ + 1) % 256]]

\* The damaged frames: every type, the sequence numbers around rx_seq and
\* payloads of no, one and two words.
Damaged ==
    UNION {{BadCrcWords(Frame(t, q, d)), BadPayloadWords(Frame(t, q, d))} :
              t \in FrameTypes,
              q \in {0, link[1].link_rx_rel_seq, link[1].link_pending_seq},
              d \in {<<>>, <<7>>, FiveBytes}}

\* C23: a frame whose checksum word differs from the checksum of its type,
\* seq, length and payload is not dispatched: nothing is delivered or
\* written, the session is as it was except for link_rx_crc_fail_count,
\* which is one more, and the parser is back in LINK_RX_WAIT_MAGIC (the
\* payload buffer of the parser holds the bytes of the dropped frame).
C23_BadCrcDropped ==
    (link[1].link_rx_state = LINK_RX_WAIT_MAGIC /\ wire[1] = <<>>) =>
        \A ws \in Damaged :
            /\ Fed(ws).handled = <<>>
            /\ Fed(ws).tx = <<>>
            /\ Fed(ws).delivered = <<>>
            /\ Fed(ws).rx = <<>>
            /\ [Session(Fed(ws)) EXCEPT !.link_rx_payload = link[1].link_rx_payload]
                  = [link[1] EXCEPT !.link_rx_crc_fail_count = @ + 1]

\* A Connected session that waits for a RELIABLE frame has dropped a
\* damaged frame, and drops a damaged RELIABLE frame that carries the
\* sequence number it waits for.
C23_Witness ==
    /\ link[1].link_state = LINK_STATE_CONNECTED
    /\ link[1].link_rx_state = LINK_RX_WAIT_MAGIC /\ wire[1] = <<>>
    /\ link[1].link_rx_crc_fail_count = 1
    /\ \E ws \in {BadCrcWords(Frame(LINK_PKT_RELIABLE, link[1].link_rx_rel_seq, FiveBytes))} :
          /\ Fed(ws).link_rx_crc_fail_count = 2
          /\ Fed(ws).link_rx_rel_seq = link[1].link_rx_rel_seq
          /\ Fed(ws).sock_receiveMessage = link[1].sock_receiveMessage
          /\ Fed(ws).link_rx_state = LINK_RX_WAIT_MAGIC

\* The types, sequence numbers and payloads of the round trip: the seven
\* frame types and two bytes that are none, and for every length up to
\* LINK_MAX_PAYLOAD two payloads with bytes from 0 to 255.
RoundTypes == FrameTypes \cup {0, 255}

RoundPayloads ==
    {[i \in 1..len |-> (37 * i + k) % 256] : len \in 0..LINK_MAX_PAYLOAD, k \in {0, 219}}

RoundFrames == {Frame(t, q, d) : t \in RoundTypes, q \in Seqs, d \in RoundPayloads}

\* The words of frame f are the magic word, the header word, the checksum
\* word and ceil(len / 4) payload words, least significant byte first,
\* padded with zero bytes.
Encoded(f, ws) ==
    /\ Len(ws) = 3 + PayloadWords(Len(f.data))
    /\ ws[1] = LINK_FRAME_MAGIC
    /\ ws[2] = <<Len(f.data) % 256, Len(f.data) \div 256, f.seq, f.type>>
    /\ ws[3] = CrcWord(Link_FrameCRC(f.type, f.seq, f.data))
    /\ \A j \in 1..PayloadWords(Len(f.data)) : \A k \in 1..4 :
          ws[3 + j][k] = IF 4 * (j - 1) + k <= Len(f.data)
                         THEN f.data[4 * (j - 1) + k] ELSE 0

\* C24: the words Link_SendFrame writes for a frame of any type and seq
\* with a payload of 0..LINK_MAX_PAYLOAD bytes, fed to a parser in
\* LINK_RX_WAIT_MAGIC, hand exactly that frame (type, seq, length and
\* payload bytes) to Link_HandleFrame, once, and leave the parser in
\* LINK_RX_WAIT_MAGIC.
C24_RoundTrip ==
    (link[1].link_rx_state = LINK_RX_WAIT_MAGIC /\ wire[1] = <<>>) =>
        \A f \in RoundFrames :
            /\ Encoded(f, FrameWords(f))
            /\ Fed(FrameWords(f)).handled = <<f>>
            /\ Fed(FrameWords(f)).rx = <<>>
            /\ Fed(FrameWords(f)).link_rx_state = LINK_RX_WAIT_MAGIC

\* A Connected session whose parser has handled frames before decodes a
\* RELIABLE frame of LINK_MAX_PAYLOAD bytes, the last word padded, and
\* delivers its payload.
C24_Witness ==
    /\ link[1].link_state = LINK_STATE_CONNECTED /\ link[1].link_socket = LinkSock
    /\ link[1].link_rx_state = LINK_RX_WAIT_MAGIC /\ wire[1] = <<>>
    /\ link[1].sock_receiveMessage = <<>>
    /\ \E d \in {[i \in 1..LINK_MAX_PAYLOAD |-> (37 * i) % 256]} :
          \E f \in {Frame(LINK_PKT_RELIABLE, link[1].link_rx_rel_seq, d)} :
             /\ LINK_MAX_PAYLOAD % 4 # 0
             /\ Fed(FrameWords(f)).handled = <<f>>
             /\ Fed(FrameWords(f)).delivered = <<d>>

\* The reference checksum: CRC-16 as a shift register of 16 bits, most
\* significant first, fed the message one bit at a time.
Poly1021 == <<0, 0, 0, 1, 0, 0, 0, 0, 0, 0, 1, 0, 0, 0, 0, 1>>

AllOnes == [i \in 1..16 |-> 1]

\* The bits of byte b, most significant first.
ByteBits(b) == [k \in 1..8 |-> (b \div (2 ^ (8 - k))) % 2]

\* One message bit: the register shifts left, a 0 enters, the top bit
\* falls out (16-bit truncation), and the polynomial is added when the bit
\* that fell out differs from the message bit.
RegShift(reg, bit) ==
    IF (reg[1] + bit) % 2 = 1
    THEN [i \in 1..16 |-> ((IF i < 16 THEN reg[i + 1] ELSE 0) + Poly1021[i]) % 2]
    ELSE [i \in 1..16 |-> IF i < 16 THEN reg[i + 1] ELSE 0]

RECURSIVE RegBits(_, _, _)
RegBits(reg, bits, k) ==
    IF Len(reg) # 16 \/ k > Len(bits) THEN reg
    ELSE RegBits(RegShift(reg, bits[k]), bits, k + 1)

RECURSIVE RegBytes(_, _)
RegBytes(reg, bytes) ==
    IF Len(reg) # 16 \/ bytes = <<>> THEN reg
    ELSE RegBytes(RegBits(reg, ByteBits(Head(bytes)), 1), Tail(bytes))

RECURSIVE RegValue(_, _)
RegValue(reg, i) == IF i = 0 THEN 0 ELSE reg[i] + 2 * RegValue(reg, i - 1)

\* CRC-16, polynomial 0x1021, initial value 0xFFFF, no final XOR.
RefCRC(bytes) == RegValue(RegBytes(AllOnes, bytes), 16)

\* The bytes the checksum of a frame covers.
Covered(type, seq, payload) ==
    <<type, seq, Len(payload) % 256, Len(payload) \div 256>> \o payload

\* The session of endpoint 1 is as Link_Init left it.
Fresh == link[1] = InitWordSession

\* C25: Link_FrameCRC is the CRC-16 with polynomial 0x1021, initial value
\* 0xFFFF, most significant bit first, no final XOR, truncated to 16 bits,
\* of the bytes type, seq, low and high byte of the length and the payload
\* (four bytes for an empty payload): for the frame the parser holds, cut
\* at every length, in every state, and for every frame of the round trip
\* in a fresh session; the standard message "123456789" has the standard
\* checksum 0x29B1.
C25_Checksum ==
    /\ \A len \in 0..LINK_MAX_PAYLOAD :
          Link_FrameCRC(link[1].link_rx_type, link[1].link_rx_seq,
                        SubSeq(link[1].link_rx_payload, 1, len))
             = RefCRC(Covered(link[1].link_rx_type, link[1].link_rx_seq,
                              SubSeq(link[1].link_rx_payload, 1, len)))
    /\ Fresh =>
          /\ \A f \in RoundFrames :
                Link_FrameCRC(f.type, f.seq, f.data) = RefCRC(Covered(f.type, f.seq, f.data))
          /\ \A t \in RoundTypes, q \in Seqs :
                Link_FrameCRC(t, q, <<>>) = RefCRC(<<t, q, 0, 0>>)
          /\ Link_FrameCRC_Payload(65535, <<49, 50, 51, 52, 53, 54, 55, 56, 57>>) = 10673
          /\ RefCRC(<<49, 50, 51, 52, 53, 54, 55, 56, 57>>) = 10673

\* The parser has read the header and the checksum word of an UNRELIABLE
\* frame of five bytes, and the checksum word is that of the reference.
C25_Witness ==
    /\ link[1].link_rx_state = LINK_RX_WAIT_PAYLOAD
    /\ link[1].link_rx_type = LINK_PKT_UNRELIABLE
    /\ link[1].link_rx_len = Len(FiveBytes)
    /\ link[1].link_rx_crc = RefCRC(Covered(LINK_PKT_UNRELIABLE, link[1].link_rx_seq, FiveBytes))
    /\ link[1].link_rx_crc = Link_FrameCRC(LINK_PKT_UNRELIABLE, link[1].link_rx_seq, FiveBytes)

\* The RELIABLE frames among the frames fs.
RECURSIVE ReliableOf(_)
ReliableOf(fs) ==
    IF fs = <<>> THEN <<>>
    ELSE (IF Head(fs).type = LINK_PKT_RELIABLE THEN <<Head(fs)>> ELSE <<>>)
         \o ReliableOf(Tail(fs))

\* The pending message of endpoint p as a RELIABLE frame.
PendingFrame(p) ==
    Frame(LINK_PKT_RELIABLE, link[p].link_pending_seq,
          SubSeq(link[p].link_pending_data, 1, link[p].link_pending_len))

\* The retransmission a run of Link_Poll makes for endpoint 1: the pending
\* frame, once, with sent_at set to now and one more retry counted.
Retransmitted(c) ==
    /\ ReliableOf(c.tx) = <<PendingFrame(1)>>
    /\ c.link_waiting_ack
    /\ c.link_pending_seq = link[1].link_pending_seq
    /\ c.link_pending_data = link[1].link_pending_data
    /\ c.link_pending_sent_at = now
    /\ c.link_pending_retries = link[1].link_pending_retries + 1

\* C26: every Poll of a Connected session with a pending message whose
\* retry interval has expired and whose retry count is below MAX_RETRIES
\* (no frame arriving, the peer timeout not reached) retransmits a frame
\* with the seq and the payload of the original, sets sent_at to now and
\* increases the retry count by exactly one; the retry count never exceeds
\* MAX_RETRIES.
C26_Retransmit ==
    /\ link[1].link_pending_retries <= LINK_MAX_RETRIES
    /\ (RetryDue(1) /\ ~link[1].link_transport_dead /\ Silent(1) /\ ~Late(1)
        /\ link[1].link_pending_retries < LINK_MAX_RETRIES) =>
          \A c \in PollRuns : Retransmitted(c)

\* The UNRELIABLE frame with payload d.
Unreliable(d) == Frame(LINK_PKT_UNRELIABLE, 0, d)

\* A run over a RELIABLE frame the queue cannot hold: the session is dead
\* and Down, rx_seq and the queue are as they were, nothing is written.
Overflowed(c) ==
    /\ c.link_transport_dead
    /\ c.link_state = LINK_STATE_DOWN
    /\ c.dead_reason = "rx_queue_overflow"
    /\ c.link_rx_rel_seq = link[1].link_rx_rel_seq
    /\ c.sock_receiveMessage = link[1].sock_receiveMessage
    /\ c.delivered = <<>>
    /\ c.tx = <<>>

\* C27 as written: a RELIABLE frame with seq = rx_seq that the receive
\* queue cannot hold marks the session dead (Down), rx_seq is not advanced
\* and no acknowledgment is sent; an UNRELIABLE frame the queue cannot hold
\* is dropped and the session stays Connected with all state unchanged.
C27_Original ==
    Receiving(1) =>
        \A d \in Payloads :
            ~QueueRoom(1, d) =>
                /\ \A c \in FrameRuns(Reliable(link[1].link_rx_rel_seq, d)) : Overflowed(c)
                /\ \A c \in FrameRuns(Unreliable(d)) :
                      /\ c.tx = <<>>
                      /\ c.link_state = LINK_STATE_CONNECTED
                      /\ Session(c) = link[1]

\* C27 (amended): as above, except that the dropped UNRELIABLE frame, like
\* every frame handled, sets last_rx_time to now; the rest of the session
\* is unchanged.
C27_QueueFull ==
    Receiving(1) =>
        \A d \in Payloads :
            ~QueueRoom(1, d) =>
                /\ \A c \in FrameRuns(Reliable(link[1].link_rx_rel_seq, d)) : Overflowed(c)
                /\ \A c \in FrameRuns(Unreliable(d)) :
                      /\ c.tx = <<>>
                      /\ c.link_state = LINK_STATE_CONNECTED
                      /\ Session(c) = [link[1] EXCEPT !.link_last_rx_time = now]

\* A Connected session whose queue is full and that has heard nothing
\* since the clock moved on: the RELIABLE frame it waits for kills it, and
\* the UNRELIABLE frame is dropped and refreshes last_rx_time.
C27_Witness ==
    /\ Receiving(1)
    /\ ~QueueRoom(1, <<7>>)
    /\ link[1].link_last_rx_time < now
    /\ \E c \in FrameRuns(Reliable(link[1].link_rx_rel_seq, <<7>>)) : Overflowed(c)
    /\ \E c \in FrameRuns(Unreliable(<<7>>)) :
          /\ c.sock_receiveMessage = link[1].sock_receiveMessage
          /\ c.link_last_rx_time = now

\* Header words that declare more than LINK_MAX_PAYLOAD bytes.
LongLengths == {LINK_MAX_PAYLOAD + 1, LINK_MAX_PAYLOAD + 4, 256, 65535}

LongHeaders == {HeaderWord(t, q, n) : t \in FrameTypes, q \in {0, 255}, n \in LongLengths}

\* A word of four non-zero bytes.
Noise == <<255, 254, 253, 252>>

\* The buffer indices (from 0) at which a run ending in c has changed the
\* payload buffer of the parser.
Written(c) ==
    {i \in 0..(Len(link[1].link_rx_payload) - 1) :
        c.link_rx_payload[i + 1] # link[1].link_rx_payload[i + 1]}

\* C28: a header word that declares more than LINK_MAX_PAYLOAD bytes takes
\* the parser back to LINK_RX_WAIT_MAGIC and nothing is dispatched; in
\* LINK_RX_WAIT_CRC and LINK_RX_WAIT_PAYLOAD the declared length is at most
\* LINK_MAX_PAYLOAD, and a payload word is stored only at buffer indices
\* below the declared length (those of the word's own four bytes), the
\* buffer keeping its LINK_MAX_PAYLOAD bytes.
C28_LengthBound ==
    /\ link[1].link_rx_state \in {LINK_RX_WAIT_CRC, LINK_RX_WAIT_PAYLOAD} =>
          /\ link[1].link_rx_len <= LINK_MAX_PAYLOAD
          /\ link[1].link_rx_words_needed = PayloadWords(link[1].link_rx_len)
    /\ Len(link[1].link_rx_payload) = LINK_MAX_PAYLOAD
    /\ link[1].link_rx_state = LINK_RX_WAIT_HEADER =>
          \A h \in LongHeaders :
              /\ Fed(<<h>>).handled = <<>>
              /\ Fed(<<h>>).tx = <<>>
              /\ Session(Fed(<<h>>)) = [link[1] EXCEPT !.link_rx_state = LINK_RX_WAIT_MAGIC]
    /\ Len(Fed(<<Noise>>).link_rx_payload) = LINK_MAX_PAYLOAD
    /\ \A i \in Written(Fed(<<Noise>>)) :
          /\ link[1].link_rx_state = LINK_RX_WAIT_PAYLOAD
          /\ i < link[1].link_rx_len
          /\ i >= 4 * link[1].link_rx_words_seen
          /\ i < 4 * link[1].link_rx_words_seen + 4

\* The parser has stored the first word of a five-byte payload: of the
\* next word only the byte at index 4 is stored, the frame fails its
\* checksum, and a header that then declares too long a payload takes the
\* parser back to LINK_RX_WAIT_MAGIC with nothing dispatched.
C28_Witness ==
    /\ link[1].link_rx_state = LINK_RX_WAIT_PAYLOAD
    /\ link[1].link_rx_len = Len(FiveBytes)
    /\ link[1].link_rx_words_seen = 1
    /\ link[1].link_rx_payload[5] # 255
    /\ Written(Fed(<<Noise>>)) = {4}
    /\ Fed(<<Noise, LINK_FRAME_MAGIC>>).link_rx_state = LINK_RX_WAIT_HEADER
    /\ Fed(<<Noise, LINK_FRAME_MAGIC, LongHeader>>).link_rx_state = LINK_RX_WAIT_MAGIC
    /\ Fed(<<Noise, LINK_FRAME_MAGIC, LongHeader>>).handled = <<>>

\* The receive pump called until the channel is empty: the pumps of as
\* many calls as it takes, each taking its budget of words; the waits of
\* the replies the handlers send pump as the schedule has it.
RECURSIVE PumpAll(_)
PumpAll(c) == IF c.rx = <<>> THEN c ELSE PumpAll(Link_PumpRx(c, LINK_POLL_WORD_BUDGET))

\* The words of a parser's longest walk away from LINK_RX_WAIT_MAGIC: the
\* header word, the checksum word and the payload words.
HealWords == 2 + PayloadWords(LINK_MAX_PAYLOAD)

\* What arrives ahead of a frame: nothing, noise, a HELLO or the RELIABLE
\* frame the session waits for, alone or with a word of noise behind it.
Ahead ==
    { <<>>, <<Noise>>, Hello3, Hello3 \o <<Noise>>,
      FrameWords(Reliable(link[1].link_rx_rel_seq, <<7>>)) \o <<Noise>> }

\* The runs of the pumps of endpoint 1 over the words ws.
PumpRuns(ws) == BudgetRuns(LAMBDA x : PumpAll(x), StartWith(1, ws), FALSE, 2)

\* The parser states of a run: the state each word found and the last one.
Walk(c) == Append(c.found, c.link_rx_state)

\* A parser on walk w is in LINK_RX_WAIT_MAGIC at the latest after
\* HealWords words, wherever it was.
Heals(w) ==
    \A i \in 1..Len(w) :
        i + HealWords <= Len(w) =>
            \E j \in i..(i + HealWords) : w[j] = LINK_RX_WAIT_MAGIC

\* The frame f occurs among the frames fs.
Among(f, fs) == \E i \in 1..Len(fs) : fs[i] = f

\* C29: the parser is self-healing: whatever its state and the words that
\* arrive, it is back in LINK_RX_WAIT_MAGIC after at most
\* 2 + ceil(LINK_MAX_PAYLOAD / 4) further words, and a well-formed frame
\* whose magic word finds the parser in LINK_RX_WAIT_MAGIC is dispatched.
C29_SelfHealing ==
    wire[1] = <<>> =>
        \A pre \in Ahead :
            \A c \in PumpRuns(pre \o FrameWords(Unreliable(FiveBytes))) :
                /\ Heals(Walk(c))
                /\ c.found[Len(pre) + 1] = LINK_RX_WAIT_MAGIC =>
                      Among(Unreliable(FiveBytes), c.handled)

\* The runs of Link_Poll of endpoint 1 with a flood of words behind those
\* on their way.
FloodPollRuns ==
    BudgetRuns(LAMBDA x : Link_Poll(x), StartWith(1, wire[1] \o Flood), TRUE, LINK_TX_SPINS)

\* C30: one call of Poll removes at most LINK_POLL_WORD_BUDGET words from
\* the receive channel, whatever frames the words carry.
C30_PollBudget ==
    \A c \in FloodPollRuns :
        Len(wire[1] \o Flood) - Len(c.rx) <= LINK_POLL_WORD_BUDGET

\* Link_OnReliable and Link_SendMessage at the wrap of the sequence
\* numbers, in SpecWrap.
\* The frame a successful Link_SendMessage wrote after its Link_Poll
\* carries the counter, and the counter is then one more modulo 256.
Counted(c, d) ==
    /\ SentAfterPoll(c) = <<Reliable(c.mid.link_tx_rel_seq, d)>>
    /\ c.link_pending_seq = c.mid.link_tx_rel_seq
    /\ c.link_tx_rel_seq = (c.mid.link_tx_rel_seq + 1) % 256
    /\ c.link_tx_rel_seq \in 0..255

HelloDue ==
    /\ link[1].pc = "connecting"
    /\ now < link[1].deadline
    /\ link[1].link_state = LINK_STATE_HANDSHAKE
    /\ now - link[1].link_last_hello_time >= LINK_HELLO_INTERVAL

NoHello(fs) == \A i \in 1..Len(fs) : fs[i] # Hello

\* C32 as written: while the session is Handshake, each Poll at which
\* now - last_hello_time >= HELLO_INTERVAL retransmits HELLO.
C32_Original ==
    (HelloDue /\ Silent(1)) => \A c \in ConnectPollRuns : ~NoHello(c.tx)

\* C32: while the session is Handshake, each Poll at which
\* now - last_hello_time >= HELLO_INTERVAL retransmits one HELLO and sets
\* last_hello_time to now when the transport offers TX space, and
\* otherwise transmits nothing and leaves last_hello_time alone, so that
\* the HELLO is due again at the next Poll; before the interval has passed
\* no HELLO is transmitted.  A HELLO-ACK that the Poll of a session in
\* Handshake takes from the receive channel makes it Connected and
\* Link_Connect return the session, and that Poll transmits no HELLO.  A
\* Poll of a session that is Connected or Down transmits no HELLO.
C32_HelloResend ==
    /\ (link[1].pc = "connecting" /\ now < link[1].deadline) =>
          \A c \in ConnectPollRuns :
              /\ (HelloDue /\ Silent(1)) =>
                    IF Clear(c)
                    THEN /\ c.tx = <<Hello>>
                         /\ c.link_last_hello_time = now
                    ELSE /\ c.tx = <<>>
                         /\ c.link_last_hello_time = link[1].link_last_hello_time
              /\ (link[1].link_state = LINK_STATE_HANDSHAKE /\ ~HelloDue /\ Silent(1)) =>
                    c.tx = <<>>
              /\ (Initiating(1) /\ wire[1] = <<HelloAck>> /\ c.plan[1].n = 1) =>
                    /\ c.link_state = LINK_STATE_CONNECTED
                    /\ c.ret = LinkSock /\ ~Started(c)
                    /\ c.tx = <<>>
              /\ link[1].link_state # LINK_STATE_HANDSHAKE => NoHello(c.tx)
    /\ (Idle(1) /\ link[1].link_state # LINK_STATE_HANDSHAKE) =>
          \A c \in PollRuns : NoHello(c.tx)

\* Link_Connect has returned a Connected session after a HELLO was
\* retransmitted: the HELLO-ACK came a HELLO interval or more after the
\* handshake began.
C32_Witness ==
    /\ Idle(1)
    /\ link[1].link_state = LINK_STATE_CONNECTED
    /\ ~link[1].link_server_side
    /\ link[1].link_last_hello_time - link[1].link_handshake_start
          >= LINK_HELLO_INTERVAL + LINK_RETRY_INTERVAL

Keepalive == Frame(LINK_PKT_KEEPALIVE, 0, <<>>)

\* Endpoint p is Connected and has transmitted no frame for
\* KEEPALIVE_INTERVAL.
KeepaliveDue(p) ==
    /\ Idle(p)
    /\ link[p].link_state = LINK_STATE_CONNECTED
    /\ now - link[p].link_last_tx_time >= LINK_KEEPALIVE_INTERVAL

\* The pending message has had MAX_RETRIES retransmissions and is due again.
RetriesSpent(p) ==
    RetryDue(p) /\ link[p].link_pending_retries >= LINK_MAX_RETRIES

\* The runs of one send of an empty frame of type t by endpoint 1.
FrameSendRuns(t) ==
    Runs(LAMBDA x : Link_SendFrame(x, t, 0, <<>>), Start(1, FALSE), FALSE)

\* The session but for the time of its last received frame.
ButRxTime(s) == [s EXCEPT !.link_last_rx_time = 0]

\* C33 as written: while Connected, at each Poll where
\* now - last_tx_time >= KEEPALIVE_INTERVAL a KEEPALIVE frame is sent.
C33_Original ==
    (KeepaliveDue(1) /\ Silent(1)) =>
        \A c \in PollRuns : \E i \in 1..Len(c.tx) : c.tx[i] = Keepalive

\* C33: at a Poll of a Connected session where
\* now - last_tx_time >= KEEPALIVE_INTERVAL and no frame arrives, one
\* KEEPALIVE is sent when the transport offers TX space, unless the
\* pending message is due: then it is retransmitted instead (which
\* refreshes last_tx_time), or the session goes Down when its retries are
\* spent, and a KEEPALIVE is sent only if that retransmission found no TX
\* space.  Before the interval has passed no KEEPALIVE is sent.  Every
\* frame send that succeeds, of any type, leaves last_tx_time = now.  A
\* received KEEPALIVE produces no reply and changes no state other than
\* last_rx_time, which becomes now.
C33_Keepalive ==
    /\ (KeepaliveDue(1) /\ Silent(1)) =>
          \A c \in PollRuns :
              /\ c.tx \in {<<>>, <<Keepalive>>, <<PendingFrame(1)>>}
              /\ RetriesSpent(1) => c.tx = <<>> /\ c.link_state = LINK_STATE_DOWN
              /\ (Clear(c) /\ ~RetriesSpent(1)) =>
                    c.tx = IF RetryDue(1) THEN <<PendingFrame(1)>> ELSE <<Keepalive>>
              /\ (~RetryDue(1) /\ ~Clear(c)) => c.tx = <<>>
              /\ c.tx # <<>> => c.link_last_tx_time = now
    /\ (Receiving(1) /\ ~KeepaliveDue(1) /\ Silent(1)) =>
          \A c \in PollRuns : \A i \in 1..Len(c.tx) : c.tx[i] # Keepalive
    /\ Idle(1) =>
          \A t \in FrameTypes : \A c \in FrameSendRuns(t) :
              c.ok => /\ c.link_last_tx_time = now
                      /\ c.tx # <<>> /\ c.tx[Len(c.tx)] = Frame(t, 0, <<>>)
    /\ Idle(1) =>
          \A c \in FrameRuns(Keepalive) :
              /\ c.tx = <<>>
              /\ c.link_last_rx_time = now
              /\ ButRxTime(Session(c)) = ButRxTime(link[1])

\* A Connected session that has transmitted nothing for KEEPALIVE_INTERVAL
\* sends a KEEPALIVE at its Poll and stays Connected; a KEEPALIVE arriving
\* then would only move last_rx_time.
C33_Witness ==
    /\ KeepaliveDue(1) /\ Silent(1)
    /\ link[1].link_last_rx_time < now
    /\ \E c \in PollRuns :
          /\ c.tx = <<Keepalive>>
          /\ c.link_state = LINK_STATE_CONNECTED
          /\ c.link_last_tx_time = now
    /\ \E c \in FrameRuns(Keepalive) : c.link_last_rx_time = now

\* The runs of Link_SendUnreliableMessage of endpoint 1.
SendUnreliableRuns(sock, data) ==
    Runs(LAMBDA x : Link_SendUnreliableMessage(x, sock, data), Start(1, FALSE), TRUE)

\* The frame on its way has arrived when the call's Link_Poll pumps.
Arrived(c) == c.plan[1].n = 1

\* Every wait for TX space of the run found space.
SpaceOffered(c) == \A i \in 2..Len(c.plan) : c.plan[i].ok

\* The acknowledgment of the pending message of endpoint p is waiting in
\* its receive channel.
AckWaiting(p) ==
    /\ Receiving(p) /\ link[p].held
    /\ link[p].link_waiting_ack
    /\ wire[p] = <<Ack(link[p].link_pending_seq)>>

ResetWaiting(p) == Receiving(p) /\ link[p].held /\ wire[p] = <<Reset>>

\* C34 as written: when the acknowledgment of the pending message is
\* waiting in the receive channel, Send handles it first and is accepted.
C34_Original ==
    AckWaiting(1) =>
        \A d \in Payloads : \A c \in SendRuns(LinkSock, d) : Arrived(c) => c.ret = 1

\* C34: Send and SendUnreliable poll the receive path before they decide.
\* When the acknowledgment of the pending message is waiting in the
\* receive channel, Send handles it first and is not rejected as Busy: it
\* finds no message pending and transmits, and it is accepted (1, the new
\* message pending) when the transport offers TX space and returns 0
\* with nothing transmitted or stored otherwise.  When a RESET is waiting,
\* Send and SendUnreliable return Dead (-1) and transmit nothing.
C34_DrainFirst ==
    \A d \in Payloads :
        /\ AckWaiting(1) =>
              \A c \in SendRuns(LinkSock, d) :
                  Arrived(c) =>
                      /\ ~c.mid.link_waiting_ack
                      /\ c.mid.link_state = LINK_STATE_CONNECTED
                      /\ IF SpaceOffered(c)
                         THEN /\ c.ret = 1
                              /\ SentAfterPoll(c) = <<Reliable(c.mid.link_tx_rel_seq, d)>>
                              /\ c.link_waiting_ack /\ c.link_pending_data = d
                         ELSE /\ c.ret = 0
                              /\ SentAfterPoll(c) = <<>>
                              /\ ~c.link_waiting_ack
        /\ ResetWaiting(1) =>
              /\ \A c \in SendRuns(LinkSock, d) :
                    Arrived(c) =>
                        /\ c.ret = -1 /\ c.tx = <<>>
                        /\ c.link_transport_dead /\ ~c.link_waiting_ack
              /\ \A c \in SendUnreliableRuns(LinkSock, d) :
                    Arrived(c) => c.ret = -1 /\ c.tx = <<>> /\ c.link_transport_dead

\* A message is pending and its acknowledgment is waiting: Send is
\* accepted; and with a RESET waiting instead it would return Dead.
C34_Witness ==
    /\ AckWaiting(1)
    /\ \E c \in SendRuns(LinkSock, <<7>>) :
          Arrived(c) /\ c.ret = 1 /\ c.link_pending_data = <<7>>
    /\ \E c \in Runs(LAMBDA x : Link_SendMessage(x, LinkSock, <<7>>),
                     StartWith(1, <<Reset>>), TRUE) :
          Arrived(c) /\ c.ret = -1

\* Link_Connect called once more than MaxConnects times: the session that
\* Link_Close ended is set up again.
ConnectAgain(p, two) ==
    /\ Idle(p)
    /\ obs[p].connects <= MaxConnects
    /\ \E c \in Outcomes(LAMBDA x : Link_Connect(x, 0), Start(p, two), FALSE) :
          Call(p, two, "Connect", c)

\* Two peers on a lossy FIFO link, at one instant: endpoint 1 connects,
\* sends, closes its session and connects again; endpoint 2 listens and
\* receives.
NextReconnect ==
    \/ Listen(2, TRUE)
    \/ CheckNewConnections(2, TRUE)
    \/ ConnectAgain(1, TRUE)
    \/ ConnectPoll(1, TRUE)
    \/ SendMessage(1, TRUE)
    \/ Close(1, TRUE)
    \/ GetMessage(2, TRUE)
    \/ \E p \in Peers : Poll(p, TRUE)
    \/ \E p \in Peers : LoseFrame(p)

SpecReconnect == Init /\ [][NextReconnect]_vars

\* The RELIABLE_ACK that clears the pending message of endpoint p is the
\* next frame it receives.
AckNext(p) ==
    /\ link[p].link_state = LINK_STATE_CONNECTED
    /\ link[p].link_waiting_ack
    /\ wire[p] # <<>>
    /\ Head(wire[p]) = Ack(link[p].link_pending_seq)

\* C35: whenever the pending reliable message of endpoint 1 is about to be
\* cleared by a RELIABLE_ACK, endpoint 2 has placed exactly that payload
\* on its receive queue: the payloads it queued are the payloads accepted
\* from endpoint 1, the pending one last, also when endpoint 1 closed its
\* session and connected again while endpoint 2 remained Connected.
C35_AckedIsQueued ==
    AckNext(1) =>
        /\ obs[2].delivered = obs[1].accepted
        /\ obs[2].delivered # <<>>
        /\ obs[2].delivered[Len(obs[2].delivered)] = link[1].link_pending_data

\* The frames whose handlers transmit a reply, ahead of another frame.
Repliers == {Hello, Reliable(link[1].link_rx_rel_seq, <<7>>)}

\* C36: two well-formed frames arriving back to back are both dispatched
\* to the frame handler, once each and in order, and the first word of
\* the second frame is examined by a parser in LINK_RX_WAIT_MAGIC, also
\* when the handler of the first frame transmits a reply whose wait for
\* TX space pumps the receive channel.
C36_BackToBack ==
    (wire[1] = <<>> /\ link[1].link_rx_state = LINK_RX_WAIT_MAGIC) =>
        \A f \in Repliers :
            \A c \in PumpRuns(FrameWords(f) \o FrameWords(Unreliable(FiveBytes))) :
                /\ c.handled = <<f, Unreliable(FiveBytes)>>
                /\ c.found[Len(FrameWords(f)) + 1] = LINK_RX_WAIT_MAGIC

\* The runs of one send of an UNRELIABLE frame with payload d by endpoint
\* 1, word by word, on an empty receive channel: a schedule has an entry
\* for every spin of the waits of the header and of each payload word.
WordFrameSendRuns(d) ==
    WordRuns(LAMBDA x : Link_SendFrame(x, LINK_PKT_UNRELIABLE, 0, d),
             StartWith(1, <<>>), FALSE,
             (1 + PayloadWords(Len(d))) * LINK_TX_SPINS - 1)

\* The payloads of no, one and two payload words.
SendPayloads == {<<>>, <<7>>, FiveBytes}

\* C37: a frame send is all-or-nothing on the TX word stream: a send that
\* reports failure has written no word of the frame, and a send that
\* reports success has written exactly the 3 + ceil(len / 4) words of the
\* frame.
C37_AllOrNothing ==
    wire[1] = <<>> =>
        \A d \in SendPayloads :
            \A c \in WordFrameSendRuns(d) :
                IF c.ok
                THEN /\ c.tx = FrameWords(Frame(LINK_PKT_UNRELIABLE, 0, d))
                     /\ Len(c.tx) = 3 + PayloadWords(Len(d))
                ELSE c.tx = <<>>

\* The longest interval a time stamp is compared with.
LongestInterval == LINK_PEER_TIMEOUT

\* A time stamp d earlier against the clock t, no earlier than the longest
\* interval the timers compare it with.
Earlier(stamp, d, t) ==
    IF stamp - d < t - LongestInterval THEN t - LongestInterval ELSE stamp - d

\* The session d later: the timers read only differences between the clock
\* and a time stamp, so the clock is left where it is and every time
\* stamp is moved back.
Aged(s, d, t) ==
    [s EXCEPT !.link_pending_sent_at = Earlier(@, d, t),
              !.link_last_rx_time = Earlier(@, d, t),
              !.link_last_tx_time = Earlier(@, d, t),
              !.link_last_hello_time = Earlier(@, d, t),
              !.link_handshake_start = Earlier(@, d, t)]

\* The clock moves on by d, without a horizon.
Elapse(p, d) ==
    /\ Idle(p)
    /\ link' = [link EXCEPT ![p] = Aged(@, d, now)]
    /\ UNCHANGED <<wire, now, obs>>

\* The frames that keep arriving: keepalives and acknowledgments.
ProgressFrames == {Keepalive} \cup {Ack(q) : q \in 0..(MaxSends - 1)}

InitProgress ==
    /\ link = [p \in Peers |-> IF p = 1 THEN Handshaken ELSE InitSession]
    /\ wire = [p \in Peers |-> <<>>]
    /\ now = 0
    /\ obs = [p \in Peers |-> InitObs]

\* A Connected endpoint that sends reliable messages and is polled while
\* time passes and frames of its peer arrive.
NextProgress ==
    \/ Poll(1, FALSE)
    \/ SendMessage(1, FALSE)
    \/ Inject(1, ProgressFrames)
    \/ Elapse(1, LINK_KEEPALIVE_INTERVAL)

\* Time passes, and the caller polls once per application tick, for ever:
\* Link_Poll is enabled whenever the endpoint is between calls, so the
\* calls recur.
SpecProgress ==
    /\ InitProgress
    /\ [][NextProgress]_vars
    /\ WF_vars(Elapse(1, LINK_KEEPALIVE_INTERVAL))
    /\ []<><<Poll(1, FALSE)>>_vars

\* C38: under repeated Poll calls with advancing time, a Connected session
\* with a pending reliable message eventually has the message
\* acknowledged or goes Down, whatever the transport does.
C38_Progress ==
    (link[1].link_state = LINK_STATE_CONNECTED /\ link[1].link_waiting_ack)
        ~> (~link[1].link_waiting_ack \/ link[1].link_state = LINK_STATE_DOWN)

\* C39: Close called with a qsocket that is not the link's current session
\* socket leaves the current session untouched: state, sequence counters,
\* pending message and the session socket are unchanged, and no RESET is
\* sent.
C39_ForeignClose ==
    (Idle(1) /\ link[1].link_socket = LinkSock /\ Silent(1)) =>
        \A c \in CloseRuns(OtherSock) :
            /\ c.link_socket = LinkSock
            /\ c.link_state = link[1].link_state
            /\ c.link_rx_rel_seq = link[1].link_rx_rel_seq
            /\ ReliableState(c) = ReliableState(link[1])
            /\ c.tx = <<>>

\* C40: between calls of the public entry points, a Connected session has
\* a session socket and is not marked dead, a session marked dead is Down,
\* and no frame send is in progress.
C40_Consistent ==
    \A p \in Peers :
        Idle(p) =>
            /\ link[p].link_state = LINK_STATE_CONNECTED =>
                  link[p].link_socket # NULL /\ ~link[p].link_transport_dead
            /\ link[p].link_transport_dead => link[p].link_state = LINK_STATE_DOWN
            /\ ~link[p].link_sending_frame

\* A Connected session with its socket and a message pending, which a
\* RESET would leave marked dead and Down.
C40_Witness ==
    /\ Receiving(1) /\ link[1].link_waiting_ack
    /\ ~link[1].link_sending_frame
    /\ \E c \in FrameRuns(Reset) :
          c.link_transport_dead /\ c.link_state = LINK_STATE_DOWN

====
